---------------------------- MODULE Spec2Model ----------------------------
(***************************************************************************)
(* Authorization-code lifecycle of the Symbol Sign-On server              *)
(* (packages/client): authorize -> verify-signature -> token               *)
(* (authorization_code | refresh_token), over the MongoDB store adapter.   *)
(*                                                                         *)
(* Every request handler is an async function: it runs synchronously up to *)
(* an `await` of a store call, and other requests may run in between.  A   *)
(* handler is therefore one action per store round trip; the synchronous   *)
(* code after a round trip belongs to the action of that round trip.       *)
(*                                                                         *)
(* Time is counted in seconds.  Documents keep the fields the handlers     *)
(* read or query on; created_at / updated_at / used_at / revoked_at are    *)
(* written but never read by any handler and are left out.                 *)
(***************************************************************************)
EXTENDS Integers, Sequences, FiniteSets, TLC

(***************************************************************************)
(* Bounds of the model                                                     *)
(***************************************************************************)
MaxReqs == 2          \* request handlers in flight at once
MaxChallenges == 1    \* challenges issued by authorize
MaxCodes == 2         \* authorization codes minted by verify-signature
MaxSessions == 3      \* sessions (refresh tokens) created by token
MaxFaults == 1        \* store calls that fail (driver / network errors)
MaxTicks == 2         \* steps of the clock
TickStep == 150       \* seconds in one step of the clock

(***************************************************************************)
(* Program constants                                                       *)
(***************************************************************************)
CHALLENGE_EXPIRES_IN == 300
AUTHCODE_EXPIRATION == 120
REFRESH_TOKEN_EXPIRATION == 2592000
JWT_EXPIRES_IN == 3600

Nil == "nil"          \* null / undefined

\* JavaScript truthiness of an optional string: undefined and '' are falsy
StrTruthy(x) == x # Nil /\ x # ""

(***************************************************************************)
(* URIs.  A URI is the sequence of its lexical pieces, so that             *)
(* String.prototype.includes (contiguous substring) and the URL parser     *)
(* can be computed rather than assumed.                                    *)
(***************************************************************************)
UCb == <<"https", ":", "//", "a.com", "/cb">>
UPrefix == <<"https", ":", "//", "a.com">>
UExt == <<"https", ":", "//", "a.com", "/cb", "/">>
UEvil == <<"https", ":", "//", "a.com.evil.com", "/cb">>
UNoScheme == <<"a.com", "/cb">>
UHttp == <<"http", ":", "//", "a.com", "/cb">>
ULocal == <<"http", ":", "//", "localhost", "/cb">>
UCustom == <<"app", ":", "//", "a.com", "/cb">>
UB == <<"https", ":", "//", "b.com", "/cb">>
UEmpty == << >>

Uris == {UCb, UPrefix, UExt, UEvil, UNoScheme, UHttp, ULocal, UCustom, UB, UEmpty}

SchemeTokens == {"https", "http", "app"}
SpecialSchemes == {"https", "http"}
HostTokens == {"a.com", "a.com.evil.com", "b.com", "localhost"}

\* new URL(uri): ok = FALSE models the TypeError the constructor throws
ParseUrl(u) ==
  LET hasScheme == Len(u) >= 2 /\ u[1] \in SchemeTokens /\ u[2] = ":"
      hasHost == Len(u) >= 4 /\ u[3] = "//" /\ u[4] \in HostTokens
      ok == hasScheme /\ (u[1] \in SpecialSchemes => hasHost)
  IN [ok |-> ok,
      protocol |-> IF ok THEN u[1] ELSE Nil,
      hostname |-> IF ok /\ hasHost THEN u[4] ELSE Nil,
      \* serialisation: a special-scheme URL with an empty path gets path "/"
      href |-> IF ok /\ u[1] \in SpecialSchemes /\ Len(u) = 4
               THEN u \o <<"/">> ELSE u]

\* s.includes(r) for strings s, r
StrIncludes(s, r) ==
  \E i \in 1..(Len(s) + 1) :
     /\ i + Len(r) - 1 <= Len(s)
     /\ SubSeq(s, i, i + Len(r) - 1) = r

\* String(array): elements joined by ","
RECURSIVE JoinComma(_)
JoinComma(a) ==
  IF Len(a) = 0 THEN << >>
  ELSE IF Len(a) = 1 THEN a[1]
  ELSE a[1] \o <<",">> \o JoinComma(Tail(a))

(***************************************************************************)
(* Client registry values: trusted_redirect_uri is declared a string, and  *)
(* the registry also holds arrays of strings (db/mongo.ts:203-208).        *)
(***************************************************************************)
StrVal(u) == [kind |-> "string", v |-> u]
ArrVal(a) == [kind |-> "array", v |-> a]
Undefined == [kind |-> "undefined", v |-> << >>]

Registries ==
  { [clientA |-> StrVal(UCb), clientB |-> StrVal(UB)],
    [clientA |-> ArrVal(<<UCb, ULocal>>), clientB |-> StrVal(UB)] }

RegisteredClients == {"clientA", "clientB"}

\* Clients.findOne({ client_id }) / findClient(client_id): << >> is null
findClient(reg, id) ==
  IF id = "clientA" THEN <<[client_id |-> id, trusted_redirect_uri |-> reg.clientA]>>
  ELSE IF id = "clientB" THEN <<[client_id |-> id, trusted_redirect_uri |-> reg.clientB]>>
  ELSE << >>

\* JavaScript truthiness of trusted_redirect_uri
Truthy(t) == IF t.kind = "undefined" THEN FALSE
             ELSE IF t.kind = "string" THEN Len(t.v) > 0 ELSE TRUE

\* client.trusted_redirect_uri.includes(redirectUri)
Includes(t, r) ==
  IF t.kind = "string" THEN StrIncludes(t.v, r)
  ELSE \E i \in 1..Len(t.v) : t.v[i] = r

(***************************************************************************)
(* State                                                                   *)
(***************************************************************************)
VARIABLES
  clients,      \* the Client registry (read-only to the flow)
  production,   \* process.env.NODE_ENV === 'production'
  now,          \* the clock
  challenges,   \* collection `challenges`
  authcodes,    \* collection `authcodes`
  sessions,     \* collection `sessions`
  inflight,     \* request handlers suspended at a store call
  last,         \* the request that was answered last, with its response
  nChal,        \* uuidv4() values drawn for challenges
  nCode,        \* uuidv4() values drawn for authorization codes
  nTok,         \* uuidv4() values drawn for refresh tokens / sessions
  faults,       \* store calls that have failed so far
  minted,       \* history: <<auth_code, challenge, signer>> for every code stored
  redeemed,     \* history: 200 responses of token(authorization_code) per code
  refreshed,    \* history: 200 responses of token(refresh_token) per token
  verified,     \* history: success responses of verify-signature per challenge
  known,        \* history: the identifiers the responses have handed out,
                \* what authorize was asked for each challenge, and the
                \* verified signer each refresh token descends from
  blacklist,    \* collection `access_token_blacklist`
  unhandled,    \* promise rejections that nothing awaits or catches
  allowedOriginsCache,   \* index.ts: the cached list of allowed origins
  cacheLastUpdated,      \* index.ts: the time recorded with the cached list
  fetches,      \* history: <<time the fetch began, list>> of every list
                \* assembled from a fetch of the allowed origins
  timeStr,      \* utils/time.ts: the argument of parseTimeToSeconds
  seconds,      \* utils/time.ts: the value it returned (-1: not yet called)
  store,        \* rate limiter: the RateLimitStore, one entry
                \* {key, count, resetTime} per key
  counted       \* history: per key, the time of the first counted request
                \* of its window and the requests allowed since then

\* the state of userinfo and of the CORS middleware
sideVars == <<blacklist, unhandled, allowedOriginsCache, cacheLastUpdated, fetches>>

\* the state of the time utility and of the authorize rate limiter
utilVars == <<timeStr, seconds, store, counted>>

vars == <<clients, production, now, challenges, authcodes, sessions, inflight,
          last, nChal, nCode, nTok, faults, minted, redeemed, refreshed,
          verified, known, sideVars, utilVars>>

\* An HTTP response; status 0 = none sent yet
NoResp == [status |-> 0, error |-> Nil, desc |-> Nil, out |-> << >>]
ErrResp(st, e, d) == [status |-> st, error |-> e, desc |-> d, out |-> << >>]
OkResp(st, o) == [status |-> st, error |-> Nil, desc |-> Nil, out |-> <<o>>]

(***************************************************************************)
(* Request handlers                                                        *)
(***************************************************************************)
\* A handler's frame: operation, position, inputs, locals and response.
\*   inp  : the request's inputs
\*   doc  : the document the handler read (<< >> = none)
\*   cli  : the client document the handler read (<< >> = none)
\*   fresh: the uuidv4() the handler drew (0 = none)
\*   hist : history, how the request stood when it started (see History)
Frame(op, pc, inp, doc, cli, fresh, hist, resp) ==
  [op |-> op, pc |-> pc, inp |-> inp, doc |-> doc, cli |-> cli,
   fresh |-> fresh, hist |-> hist, resp |-> resp]

\* the artifact a request presents
Key(op, inp) == IF op = "verify" THEN inp.json.challenge
                ELSE IF op = "code" THEN inp.code
                ELSE IF op = "logout" THEN inp.refresh_token
                ELSE inp.cookie

\* History of a request that presents artifact `key` and whose lookup
\* returned `doc`:
\*   late : a success response for the same artifact had already been sent
\*   sole : not late, and no other request for the artifact is suspended
\*   stale: the record it read had passed its expires_at
\*   ended: a logout of the refresh token it presents had been answered 200
History(op, key, successes, doc) ==
  LET late == key \in DOMAIN successes /\ successes[key] > 0
  IN [late |-> late,
      sole |-> ~late /\ ~\E r \in inflight : r.op = op /\ Key(r.op, r.inp) = key,
      stale |-> doc # << >> /\ doc[1].expires_at < now,
      ended |-> op \in {"refresh", "logout"} /\ key \in known.ended]

NoHistory == [late |-> FALSE, sole |-> FALSE, stale |-> FALSE, ended |-> FALSE]

IdleFrame == Frame("idle", "done", << >>, << >>, << >>, 0, NoHistory, NoResp)

\* the handler has sent its response and returned
Done(r, resp) == [r EXCEPT !.pc = "done", !.resp = resp]

\* a new request is accepted while fewer than MaxReqs handlers are suspended
CanBegin == Cardinality(inflight) < MaxReqs

\* the handler answers before its first suspension
Answer(r0, resp) == last' = Done(r0, resp) /\ UNCHANGED inflight

\* the handler suspends at a store call for the first time
Suspend(r1) == inflight' = inflight \cup {r1} /\ UNCHANGED last

\* a suspended handler resumes and suspends again at its next store call
Resume(r, r2) == inflight' = (inflight \ {r}) \cup {r2} /\ UNCHANGED last

\* a suspended handler resumes, answers and returns
Finish(r, resp) == last' = Done(r, resp) /\ inflight' = inflight \ {r}

(***************************************************************************)
(* authorize (services/authorize.ts)                                       *)
(***************************************************************************)
SUPPORTED_RESPONSE_TYPES == {"code"}
UndefParam == "undefined"             \* query parameter absent
ArrayParam == "array"                 \* query parameter given more than once
UUndef == <<"undefined">>
UArray == <<"array">>

isValidRedirectUri(uri, prod) ==
  LET url == ParseUrl(uri)
  IN IF ~url.ok THEN FALSE
     ELSE IF prod /\ url.protocol # "https" THEN FALSE
     ELSE IF url.protocol = "http" /\ url.hostname \notin {"localhost", "127.0.0.1"}
          THEN FALSE
     ELSE TRUE

validateAuthorizeParams(q, prod) ==
  IF q.response_type = UndefParam \/ q.client_id = UndefParam \/ q.redirect_uri = UUndef
  THEN [valid |-> FALSE, errorCode |-> "invalid_request",
        message |-> "Missing required parameters: response_type, client_id, redirect_uri"]
  ELSE IF q.response_type = ArrayParam \/ q.client_id = ArrayParam \/ q.redirect_uri = UArray
  THEN [valid |-> FALSE, errorCode |-> "invalid_request",
        message |-> "Parameters must be single values, not arrays"]
  ELSE IF q.response_type \notin SUPPORTED_RESPONSE_TYPES
  THEN [valid |-> FALSE, errorCode |-> "unsupported_response_type",
        message |-> "Only 'code' response_type is supported"]
  ELSE IF q.client_id = "" \/ Len(q.redirect_uri) = 0
  THEN [valid |-> FALSE, errorCode |-> "invalid_request",
        message |-> "client_id and redirect_uri cannot be empty"]
  ELSE IF ~isValidRedirectUri(q.redirect_uri, prod)
  THEN [valid |-> FALSE, errorCode |-> "invalid_request",
        message |-> "redirect_uri must be a valid URL"]
  ELSE [valid |-> TRUE, errorCode |-> Nil, message |-> Nil]

\* dbFails: Clients.findOne rejects
validateClient(reg, clientId, redirectUri, dbFails) ==
  LET client == findClient(reg, clientId)
  IN IF dbFails
     THEN [valid |-> FALSE, statusCode |-> 500, errorCode |-> "server_error",
           message |-> "Failed to fetch client data"]
     ELSE IF client = << >> \/ ~Truthy(client[1].trusted_redirect_uri)
     THEN [valid |-> FALSE, statusCode |-> 400, errorCode |-> "unauthorized_client",
           message |-> "Client ID is not registered or has no trusted URI"]
     ELSE IF ~Includes(client[1].trusted_redirect_uri, redirectUri)
     THEN [valid |-> FALSE, statusCode |-> 400, errorCode |-> "invalid_request",
           message |-> "redirect_uri does not match any trusted URI"]
     ELSE [valid |-> TRUE, statusCode |-> 200, errorCode |-> Nil, message |-> Nil]

\* insertChallenge whose write is lost
insertChallenge_lost(doc, expiresIn) ==
  challenges' = challenges

\* Challenges.insertOne with expires_at = now + expiresIn
insertChallenge(doc, expiresIn) ==
  challenges' = challenges \cup
     {[challenge |-> doc.challenge, client_id |-> doc.client_id,
       redirect_uri |-> doc.redirect_uri, expires_at |-> now + expiresIn]}

\* req.query holds the parameters the caller sent; a parameter that was not
\* sent is undefined
QueryParam(q, name) == IF name \in DOMAIN q THEN q[name] ELSE Nil

\* history: the state and PKCE parameters a caller sent to authorize
Asked(q) == [state |-> QueryParam(q, "state"),
             code_challenge |-> QueryParam(q, "code_challenge"),
             code_challenge_method |-> QueryParam(q, "code_challenge_method")]

\* findFails: Clients.findOne rejects; insertFails: the challenge insert rejects
handleAuthorize(q, findFails, insertFails) ==
  LET v == validateAuthorizeParams(q, production)
      c == validateClient(clients, q.client_id, q.redirect_uri, findFails)
      r0 == Frame("authorize", "begin", q, << >>, << >>, 0, NoHistory, NoResp)
  IN IF ~v.valid
     THEN /\ ~findFails /\ ~insertFails
          /\ Answer(r0, ErrResp(400, v.errorCode, v.message))
          /\ UNCHANGED <<challenges, nChal, faults, known>>
     ELSE IF ~c.valid
     THEN /\ ~insertFails
          /\ Answer(r0, ErrResp(c.statusCode, c.errorCode, c.message))
          /\ faults' = IF findFails THEN faults + 1 ELSE faults
          /\ UNCHANGED <<challenges, nChal, known>>
     ELSE /\ nChal < MaxChallenges
          /\ nChal' = nChal + 1
          /\ IF insertFails
             THEN /\ Answer(r0, ErrResp(500, "server_error", "Database error"))
                  /\ faults' = faults + 1
                  /\ UNCHANGED <<challenges, known>>
             ELSE /\ insertChallenge([challenge |-> nChal + 1, client_id |-> q.client_id,
                                      redirect_uri |-> q.redirect_uri],
                                     CHALLENGE_EXPIRES_IN)
                  /\ Answer([r0 EXCEPT !.fresh = nChal + 1],
                            OkResp(200, [client_id |-> q.client_id,
                                         redirect_uri |-> q.redirect_uri,
                                         challenge |-> nChal + 1]))
                  /\ known' = [known EXCEPT !.challenges = @ \cup {nChal + 1},
                                            !.asked = @ \cup {<<nChal + 1, Asked(q)>>}]
                  /\ UNCHANGED faults

(***************************************************************************)
(* check (services/check.ts): its own copies of the validation functions   *)
(***************************************************************************)
\* client.app_name of the registered clients; Nil = the field is not set
AppNameOf(id) == IF id = "clientA" THEN "Demo App" ELSE Nil

\* isValidRedirectUri that accepts every URL that parses
check_isValidRedirectUri_lax(uri, prod) == ParseUrl(uri).ok

check_isValidRedirectUri(uri, prod) ==
  LET url == ParseUrl(uri)
  IN IF ~url.ok THEN FALSE
     ELSE IF prod /\ url.protocol # "https" THEN FALSE
     ELSE IF url.protocol = "http" /\ url.hostname \notin {"localhost", "127.0.0.1"}
          THEN FALSE
     ELSE TRUE

check_validateAuthorizeParams(q, prod) ==
  LET bad(code, m) == [valid |-> FALSE, errorCode |-> code, message |-> m]
  IN IF q.response_type = UndefParam \/ q.client_id = UndefParam
          \/ q.redirect_uri = UUndef
     THEN bad("invalid_request",
              "Missing required parameters: response_type, client_id, redirect_uri")
     ELSE IF q.response_type = ArrayParam \/ q.client_id = ArrayParam
               \/ q.redirect_uri = UArray
     THEN bad("invalid_request", "Parameters must be single values, not arrays")
     ELSE IF q.response_type \notin SUPPORTED_RESPONSE_TYPES
     THEN bad("unsupported_response_type", "Only 'code' response_type is supported")
     ELSE IF q.client_id = "" \/ Len(q.redirect_uri) = 0
     THEN bad("invalid_request", "client_id and redirect_uri cannot be empty")
     ELSE IF ~check_isValidRedirectUri(q.redirect_uri, prod)
     THEN bad("invalid_request", "redirect_uri must be a valid URL")
     ELSE [valid |-> TRUE, errorCode |-> Nil, message |-> Nil]

\* dbFails: Clients.findOne rejects
check_validateClient(reg, clientId, redirectUri, dbFails) ==
  LET client == findClient(reg, clientId)
      bad(st, code, m) == [valid |-> FALSE, appName |-> Nil, statusCode |-> st,
                           errorCode |-> code, message |-> m]
  IN IF dbFails
     THEN bad(500, "server_error", "Failed to fetch client data")
     ELSE IF client = << >> \/ ~Truthy(client[1].trusted_redirect_uri)
     THEN bad(400, "unauthorized_client",
              "Client ID is not registered or has no trusted URI")
     ELSE IF ~Includes(client[1].trusted_redirect_uri, redirectUri)
     THEN bad(400, "invalid_request", "redirect_uri does not match any trusted URI")
     ELSE [valid |-> TRUE,
           appName |-> IF StrTruthy(AppNameOf(clientId)) THEN AppNameOf(clientId)
                       ELSE "Unknown App",
           statusCode |-> 200, errorCode |-> Nil, message |-> Nil]

\* handleError: a server error is reported without its detail
check_handleError(statusCode, error, errorDescription) ==
  ErrResp(statusCode, error,
          IF statusCode >= 500
          THEN "An unexpected error occurred. Please try again later."
          ELSE errorDescription)

\* handleCheck that records a challenge for the request it accepts, as
\* authorize does
handleCheck_issuing(q, findFails) ==
  LET v == check_validateAuthorizeParams(q, production)
      c == check_validateClient(clients, q.client_id, q.redirect_uri, findFails)
      r0 == Frame("check", "begin", q, << >>, << >>, 0, NoHistory, NoResp)
  IN /\ IF ~v.valid
        THEN /\ ~findFails
             /\ Answer(r0, check_handleError(400, v.errorCode, v.message))
             /\ UNCHANGED faults
        ELSE IF ~c.valid
        THEN /\ Answer(r0, check_handleError(c.statusCode, c.errorCode, c.message))
             /\ faults' = IF findFails THEN faults + 1 ELSE faults
        ELSE /\ Answer(r0, OkResp(200, [valid |-> TRUE, app_name |-> c.appName]))
             /\ insertChallenge([challenge |-> 0, client_id |-> q.client_id,
                                 redirect_uri |-> q.redirect_uri],
                                CHALLENGE_EXPIRES_IN)
             /\ UNCHANGED faults
     /\ ~(v.valid /\ c.valid) => UNCHANGED challenges
     /\ UNCHANGED <<sideVars, clients, production, utilVars, now, authcodes, sessions,
                    nChal, nCode, nTok, minted, redeemed, refreshed, verified,
                    known>>

\* findFails: Clients.findOne rejects
handleCheck(q, findFails) ==
  LET v == check_validateAuthorizeParams(q, production)
      c == check_validateClient(clients, q.client_id, q.redirect_uri, findFails)
      r0 == Frame("check", "begin", q, << >>, << >>, 0, NoHistory, NoResp)
  IN /\ IF ~v.valid
        THEN /\ ~findFails
             /\ Answer(r0, check_handleError(400, v.errorCode, v.message))
             /\ UNCHANGED faults
        ELSE IF ~c.valid
        THEN /\ Answer(r0, check_handleError(c.statusCode, c.errorCode, c.message))
             /\ faults' = IF findFails THEN faults + 1 ELSE faults
        ELSE /\ Answer(r0, OkResp(200, [valid |-> TRUE, app_name |-> c.appName]))
             /\ UNCHANGED faults
     /\ UNCHANGED <<sideVars, clients, production, utilVars, now, challenges, authcodes, sessions,
                    nChal, nCode, nTok, minted, redeemed, refreshed, verified,
                    known>>

(***************************************************************************)
(* The signed artifact and its verification                                *)
(* (services/verify-signature.ts, verifySignature)                         *)
(***************************************************************************)
SYMBOL_NETWORK_TYPE == "testnet"

PublicKeys == {"PK_ALICE", "PK_BOB"}

\* facade.createPublicAccount(publicKey).address
AddressOf(pk) == "ADDR(" \o pk \o ")"

\* calculatePKCEChallenge(verifier, 'S256'): base64url(SHA-256(verifier)),
\* an injective encoding of the verifier
S256(verifier) == "S256(" \o verifier \o ")"

\* the JSON object carried in the transfer message
Json(cid, ch, st, pc, pm) ==
  [client_id |-> cid, challenge |-> ch, state |-> st,
   pkce_challenge |-> pc, pkce_challenge_method |-> pm]

NoJson == Json(Nil, 0, Nil, Nil, Nil)

\* message kinds: "empty" (no message), "noflag" (first byte not 0x00),
\* "badjson" (not JSON), "json"
Payload(net, sig, ty, kind, json, pk) ==
  [network |-> net, sigValid |-> sig, type |-> ty, msg |-> kind,
   json |-> json, signerPublicKey |-> pk]

verifySignature(payload) ==
  LET fail(m) == [ok |-> FALSE, error |-> m, clientId |-> Nil, publicKey |-> Nil,
                  address |-> Nil, challenge |-> 0, state |-> Nil,
                  pkce_challenge |-> Nil, pkce_challenge_method |-> Nil]
  IN IF payload.network # SYMBOL_NETWORK_TYPE
     THEN fail("Unsupported network")
     ELSE IF ~payload.sigValid
     THEN fail("Invalid transaction signature")
     ELSE IF payload.type # "transfer"
     THEN fail("Unsupported transaction type")
     ELSE IF payload.msg = "empty"
     THEN fail("Message is empty.")
     ELSE IF payload.msg = "noflag"
     THEN fail("Challenge not found in payload")
     ELSE IF payload.msg = "badjson"
     THEN fail("Invalid JSON format in transaction message")
     ELSE IF payload.json.challenge = 0
     THEN fail("Missing challenge in transaction message")
     ELSE [ok |-> TRUE, error |-> Nil,
           clientId |-> payload.json.client_id,
           publicKey |-> payload.signerPublicKey,
           address |-> AddressOf(payload.signerPublicKey),
           challenge |-> payload.json.challenge,
           state |-> IF payload.json.state = "" THEN Nil ELSE payload.json.state,
           pkce_challenge |-> payload.json.pkce_challenge,
           pkce_challenge_method |-> payload.json.pkce_challenge_method]

(***************************************************************************)
(* Store adapter (db/mongo.ts): challenges and authorization codes         *)
(***************************************************************************)
\* Challenges.findOne({ client_id, challenge }): << >> is null
findChallenge(clientId, challenge) ==
  LET hit == {d \in challenges : d.client_id = clientId /\ d.challenge = challenge}
  IN IF hit = {} THEN << >> ELSE <<CHOOSE d \in hit : TRUE>>

\* Challenges.deleteOne({ client_id, challenge })
deleteChallenge(clientId, challenge) ==
  challenges' = {d \in challenges :
                   ~(d.client_id = clientId /\ d.challenge = challenge)}

\* AuthCodes.insertOne with expires_at = now + expiresIn
insertAuthCode(doc, expiresIn) ==
  authcodes' = authcodes \cup {[doc EXCEPT !.expires_at = now + expiresIn]}

\* findAuthCode that looks the code up without the client
findAuthCode_unscoped(clientId, authCode) ==
  LET hit == {d \in authcodes : d.auth_code = authCode}
  IN IF hit = {} THEN << >> ELSE <<CHOOSE d \in hit : TRUE>>

\* AuthCodes.findOne({ client_id, auth_code }): << >> is null
findAuthCode(clientId, authCode) ==
  LET hit == {d \in authcodes : d.client_id = clientId /\ d.auth_code = authCode}
  IN IF hit = {} THEN << >> ELSE <<CHOOSE d \in hit : TRUE>>

\* AuthCodes.updateOne({ client_id, auth_code }, { $set: { used: true } });
\* when no document matches nothing is written (and the adapter throws)
updateAuthCode(clientId, authCode) ==
  authcodes' = {IF d.client_id = clientId /\ d.auth_code = authCode
                THEN [d EXCEPT !.used = TRUE] ELSE d : d \in authcodes}

(***************************************************************************)
(* verify-signature (services/verify-signature.ts, handleVerifySignature)  *)
(***************************************************************************)
\* Lines 47-96: payload check, verifySignature, findClient, findChallenge,
\* uuidv4().  The registry is never written, so the two reads are one step.
VerifyBegin(payload, clientFails, findFails) ==
  LET p == verifySignature(payload)
      cli == findClient(clients, p.clientId)
      ch == findChallenge(p.clientId, p.challenge)
      hist == History("verify", payload.json.challenge, verified,
                      IF findFails THEN << >> ELSE ch)
      r0 == Frame("verify", "begin", payload, << >>, << >>, 0, hist, NoResp)
      done(resp) == Answer(r0, resp)
  IN /\ CanBegin
     /\ (clientFails \/ findFails) => faults < MaxFaults
     /\ ~(clientFails /\ findFails)
     /\ IF ~p.ok
        THEN /\ ~clientFails /\ ~findFails
             /\ done(ErrResp(400, "Failed to verify signature", p.error))
             /\ UNCHANGED <<nCode, faults>>
        ELSE IF clientFails
        THEN /\ done(ErrResp(500, "Database connection error", Nil))
             /\ faults' = faults + 1
             /\ UNCHANGED nCode
        ELSE IF cli = << >>
        THEN /\ ~findFails
             /\ done(ErrResp(400, "Invalid client_id", Nil))
             /\ UNCHANGED <<nCode, faults>>
        ELSE IF findFails
        THEN /\ done(ErrResp(500, "Database connection error", Nil))
             /\ faults' = faults + 1
             /\ UNCHANGED nCode
        ELSE IF ch = << >>
        THEN /\ done(ErrResp(400, "Invalid or expired challenge", Nil))
             /\ UNCHANGED <<nCode, faults>>
        ELSE /\ nCode < MaxCodes
             /\ nCode' = nCode + 1
             /\ Suspend(Frame("verify", "insertAuthCode", payload, ch, cli,
                               nCode + 1, hist, NoResp))
             /\ UNCHANGED faults
     /\ UNCHANGED <<sideVars, clients, production, utilVars, now, challenges, authcodes, sessions,
                    nChal, nTok, minted, redeemed, refreshed, verified, known>>

\* handleVerifySignature where a failed insertAuthCode ends the handler without
\* a response
VerifyInsertAuthCode_silent(r, fails) ==
  LET p == verifySignature(r.inp)
      authCodeData == [client_id |-> p.clientId, auth_code |-> r.fresh,
                       symbol_address |-> p.address,
                       symbol_public_key |-> p.publicKey,
                       pkce_challenge |-> p.pkce_challenge,
                       pkce_challenge_method |-> p.pkce_challenge_method,
                       used |-> FALSE, expires_at |-> 0]
  IN /\ r.op = "verify" /\ r.pc = "insertAuthCode"
     /\ fails => faults < MaxFaults
     /\ IF fails
        THEN /\ inflight' = inflight \ {r} /\ UNCHANGED last
             /\ faults' = faults + 1
             /\ UNCHANGED <<authcodes, minted>>
        ELSE /\ insertAuthCode(authCodeData, AUTHCODE_EXPIRATION)
             /\ minted' = minted \cup {<<r.fresh, p.challenge, p.publicKey>>}
             /\ Resume(r, [r EXCEPT !.pc = "deleteChallenge"])
             /\ UNCHANGED faults
     /\ UNCHANGED <<sideVars, clients, production, utilVars, now, challenges, sessions, nChal, nCode,
                    nTok, redeemed, refreshed, verified, known>>

\* Lines 97-113: insertAuthCode; a failure answers 500
VerifyInsertAuthCode(r, fails) ==
  LET p == verifySignature(r.inp)
      authCodeData == [client_id |-> p.clientId, auth_code |-> r.fresh,
                       symbol_address |-> p.address,
                       symbol_public_key |-> p.publicKey,
                       pkce_challenge |-> p.pkce_challenge,
                       pkce_challenge_method |-> p.pkce_challenge_method,
                       used |-> FALSE, expires_at |-> 0]
  IN /\ r.op = "verify" /\ r.pc = "insertAuthCode"
     /\ fails => faults < MaxFaults
     /\ IF fails
        THEN /\ Finish(r, ErrResp(500, "Database connection error", Nil))
             /\ faults' = faults + 1
             /\ UNCHANGED <<authcodes, minted>>
        ELSE /\ insertAuthCode(authCodeData, AUTHCODE_EXPIRATION)
             /\ minted' = minted \cup {<<r.fresh, p.challenge, p.publicKey>>}
             /\ Resume(r, [r EXCEPT !.pc = "deleteChallenge"])
             /\ UNCHANGED faults
     /\ UNCHANGED <<sideVars, clients, production, utilVars, now, challenges, sessions, nChal, nCode,
                    nTok, redeemed, refreshed, verified, known>>

\* String(clientDoc.trusted_redirect_uri), the argument of new URL(...)
RedirectBase(t) == IF t.kind = "string" THEN t.v
                   ELSE IF t.kind = "array" THEN JoinComma(t.v)
                   ELSE <<"undefined">>

\* handleVerifySignature with the failed delete treated as fatal: it
\* answers 500
VerifyDeleteChallenge_fatal(r, fails) ==
  LET p == verifySignature(r.inp)
      url == ParseUrl(RedirectBase(r.cli[1].trusted_redirect_uri))
      sent == url.ok /\ ~fails
      resp == IF ~fails /\ url.ok
              THEN OkResp(302, [location |-> url.href, code |-> r.fresh,
                                state |-> p.state])
              ELSE IF fails THEN ErrResp(500, "Database connection error", Nil)
              ELSE ErrResp(500, "Internal server error", Nil)
  IN /\ r.op = "verify" /\ r.pc = "deleteChallenge"
     /\ fails => faults < MaxFaults
     /\ IF fails
        THEN faults' = faults + 1 /\ UNCHANGED challenges
        ELSE deleteChallenge(p.clientId, p.challenge) /\ UNCHANGED faults
     /\ Finish(r, resp)
     /\ verified' = IF sent
                    THEN [verified EXCEPT ![p.challenge] = @ + 1]
                    ELSE verified
     /\ known' = IF sent
                 THEN [known EXCEPT !.codes = @ \cup {r.fresh}]
                 ELSE known
     /\ UNCHANGED <<sideVars, clients, production, utilVars, now, authcodes, sessions, nChal, nCode,
                    nTok, minted, redeemed, refreshed>>

\* Lines 115-137: deleteChallenge (a failure is logged and ignored), then the
\* redirect to the client's trusted_redirect_uri with code and state appended;
\* new URL throwing is caught by the outer handler (500).
VerifyDeleteChallenge(r, fails) ==
  LET p == verifySignature(r.inp)
      url == ParseUrl(RedirectBase(r.cli[1].trusted_redirect_uri))
      resp == IF url.ok
              THEN OkResp(302, [location |-> url.href, code |-> r.fresh,
                                state |-> p.state])
              ELSE ErrResp(500, "Internal server error", Nil)
  IN /\ r.op = "verify" /\ r.pc = "deleteChallenge"
     /\ fails => faults < MaxFaults
     /\ IF fails
        THEN faults' = faults + 1 /\ UNCHANGED challenges
        ELSE deleteChallenge(p.clientId, p.challenge) /\ UNCHANGED faults
     /\ Finish(r, resp)
     /\ verified' = IF url.ok
                    THEN [verified EXCEPT ![p.challenge] = @ + 1]
                    ELSE verified
     /\ known' = IF url.ok
                 THEN [known EXCEPT !.codes = @ \cup {r.fresh}]
                 ELSE known
     /\ UNCHANGED <<sideVars, clients, production, utilVars, now, authcodes, sessions, nChal, nCode,
                    nTok, minted, redeemed, refreshed>>

(***************************************************************************)
(* Store adapter (db/mongo.ts): sessions                                   *)
(***************************************************************************)
\* Sessions.insertOne with expires_at = now + expiresIn
insertSession(doc, expiresIn) ==
  sessions' = sessions \cup {[doc EXCEPT !.expires_at = now + expiresIn]}

\* Sessions.findOne({ refresh_token }): << >> is null
findSessionByRefreshToken(refreshToken) ==
  LET hit == {d \in sessions : d.refresh_token = refreshToken}
  IN IF hit = {} THEN << >> ELSE <<CHOOSE d \in hit : TRUE>>

\* Sessions.updateOne({ session_id }, { $set: { revoked: true } });
\* when no document matches nothing is written (and the adapter throws)
updateSession(sessionId) ==
  sessions' = {IF d.session_id = sessionId THEN [d EXCEPT !.revoked = TRUE] ELSE d
               : d \in sessions}

(***************************************************************************)
(* token (services/token.ts)                                               *)
(***************************************************************************)
\* generateJWT with the subject taken from the request's client_id
generateJWT_client(address, publicKey, clientId) ==
  [sub |-> clientId, pub |-> publicKey, client_id |-> clientId,
   type |-> "access_token"]

\* generateJWT(address, publicKey, clientId): the claims of the signed token
generateJWT(address, publicKey, clientId) ==
  [sub |-> address, pub |-> publicKey, client_id |-> clientId,
   type |-> "access_token"]

\* calculatePKCEChallenge without the hash: the verifier is compared as is
calculatePKCEChallenge_plain(verifier, method) ==
  [ok |-> TRUE, value |-> verifier]

\* calculatePKCEChallenge(verifier, method); ok = FALSE is the thrown Error
calculatePKCEChallenge(verifier, method) ==
  IF method = "S256" THEN [ok |-> TRUE, value |-> S256(verifier)]
  ELSE [ok |-> FALSE, value |-> Nil]

\* the request: body fields and the refresh_token cookie
TokenReq(gt, code, cid, ver, cookie) ==
  [grant_type |-> gt, code |-> code, client_id |-> cid, code_verifier |-> ver,
   cookie |-> cookie]

newSessionDoc(id, clientId, refreshToken, accessToken, address, publicKey) ==
  [session_id |-> id, client_id |-> clientId, refresh_token |-> refreshToken,
   access_token |-> accessToken, symbol_address |-> address,
   symbol_public_key |-> publicKey, revoked |-> FALSE, expires_at |-> 0]

\* handleToken with one answer for an unknown refresh token and another for
\* a revoked one
TokenBegin_telling(q, findFails) ==
  LET isCode == q.grant_type = "authorization_code"
      op == IF isCode THEN "code" ELSE "refresh"
      ac == findAuthCode(q.client_id, q.code)
      se == findSessionByRefreshToken(q.cookie)
      hist == IF findFails THEN History(op, Key(op, q), redeemed, << >>)
              ELSE IF isCode THEN History(op, q.code, redeemed, ac)
              ELSE History(op, q.cookie, refreshed, se)
      r0 == Frame(op, "begin", q, << >>, << >>, 0, hist, NoResp)
      done(resp) == Answer(r0, resp) /\ UNCHANGED nTok
      \* answered after the authorization code was read and found unused
      refuse(resp) == Answer([r0 EXCEPT !.doc = ac], resp) /\ UNCHANGED nTok
      proceed(doc, pc) ==
         /\ nTok < MaxSessions
         /\ nTok' = nTok + 1
         /\ Suspend(Frame(op, pc, q, doc, << >>, nTok + 1, hist, NoResp))
      calc == calculatePKCEChallenge(q.code_verifier, "S256")
  IN /\ CanBegin
     /\ findFails => faults < MaxFaults
     /\ faults' = IF findFails THEN faults + 1 ELSE faults
     /\ IF q.grant_type = Nil
        THEN ~findFails /\ done(ErrResp(400, "Missing grant_type", Nil))
        ELSE IF isCode
        THEN IF q.code = 0 \/ q.client_id = Nil
             THEN ~findFails /\ done(ErrResp(400, "Missing code or client_id", Nil))
             ELSE IF findFails
             THEN done(ErrResp(500, "Database connection error", Nil))
             ELSE IF ac = << >> \/ ac[1].used
             THEN done(ErrResp(400, "Invalid or used code", Nil))
             ELSE IF StrTruthy(ac[1].pkce_challenge) /\ ~StrTruthy(q.code_verifier)
             THEN refuse(ErrResp(400, "invalid_grant",
                         "PKCE code_verifier is required but was not supplied"))
             ELSE IF StrTruthy(ac[1].pkce_challenge) /\ ac[1].pkce_challenge_method # "S256"
             THEN refuse(ErrResp(400, "invalid_grant", "Unsupported PKCE method"))
             ELSE IF StrTruthy(ac[1].pkce_challenge) /\ ~calc.ok
             THEN refuse(ErrResp(500, "server_error", "Failed to verify code challenge"))
             ELSE IF StrTruthy(ac[1].pkce_challenge) /\ calc.value # ac[1].pkce_challenge
             THEN refuse(ErrResp(400, "invalid_grant",
                         "code_verifier does not match code_challenge"))
             ELSE proceed(ac, "updateAuthCode")
        ELSE IF q.grant_type = "refresh_token"
        THEN IF q.cookie = 0
             THEN ~findFails /\ done(ErrResp(401, "Unauthorized", "Refresh token is missing"))
             ELSE IF q.client_id = Nil
             THEN ~findFails /\ done(ErrResp(400, "Missing refresh_token or client_id", Nil))
             ELSE IF findFails
             THEN done(ErrResp(500, "Database connection error", Nil))
             ELSE IF se = << >>
             THEN done(ErrResp(400, "Invalid session", Nil))
             ELSE IF se[1].revoked = TRUE
             THEN done(ErrResp(400, "Session revoked", Nil))
             ELSE proceed(se, "updateSession")
        ELSE ~findFails /\ done(ErrResp(400, "Unsupported grant_type", Nil))
     /\ UNCHANGED <<sideVars, clients, production, utilVars, now, challenges, authcodes, sessions,
                    nChal, nCode, minted, redeemed, refreshed, verified, known>>

\* handleToken where a failed lookup of the authorization code reads as "no
\* such code"
TokenBegin_swallowing(q, findFails) ==
  LET isCode == q.grant_type = "authorization_code"
      op == IF isCode THEN "code" ELSE "refresh"
      ac == findAuthCode(q.client_id, q.code)
      se == findSessionByRefreshToken(q.cookie)
      hist == IF findFails THEN History(op, Key(op, q), redeemed, << >>)
              ELSE IF isCode THEN History(op, q.code, redeemed, ac)
              ELSE History(op, q.cookie, refreshed, se)
      r0 == Frame(op, "begin", q, << >>, << >>, 0, hist, NoResp)
      done(resp) == Answer(r0, resp) /\ UNCHANGED nTok
      \* answered after the authorization code was read and found unused
      refuse(resp) == Answer([r0 EXCEPT !.doc = ac], resp) /\ UNCHANGED nTok
      proceed(doc, pc) ==
         /\ nTok < MaxSessions
         /\ nTok' = nTok + 1
         /\ Suspend(Frame(op, pc, q, doc, << >>, nTok + 1, hist, NoResp))
      calc == calculatePKCEChallenge(q.code_verifier, "S256")
  IN /\ CanBegin
     /\ findFails => faults < MaxFaults
     /\ faults' = IF findFails THEN faults + 1 ELSE faults
     /\ IF q.grant_type = Nil
        THEN ~findFails /\ done(ErrResp(400, "Missing grant_type", Nil))
        ELSE IF isCode
        THEN IF q.code = 0 \/ q.client_id = Nil
             THEN ~findFails /\ done(ErrResp(400, "Missing code or client_id", Nil))
             ELSE IF findFails \/ ac = << >> \/ ac[1].used
             THEN done(ErrResp(400, "Invalid or used code", Nil))
             ELSE IF StrTruthy(ac[1].pkce_challenge) /\ ~StrTruthy(q.code_verifier)
             THEN refuse(ErrResp(400, "invalid_grant",
                         "PKCE code_verifier is required but was not supplied"))
             ELSE IF StrTruthy(ac[1].pkce_challenge) /\ ac[1].pkce_challenge_method # "S256"
             THEN refuse(ErrResp(400, "invalid_grant", "Unsupported PKCE method"))
             ELSE IF StrTruthy(ac[1].pkce_challenge) /\ ~calc.ok
             THEN refuse(ErrResp(500, "server_error", "Failed to verify code challenge"))
             ELSE IF StrTruthy(ac[1].pkce_challenge) /\ calc.value # ac[1].pkce_challenge
             THEN refuse(ErrResp(400, "invalid_grant",
                         "code_verifier does not match code_challenge"))
             ELSE proceed(ac, "updateAuthCode")
        ELSE IF q.grant_type = "refresh_token"
        THEN IF q.cookie = 0
             THEN ~findFails /\ done(ErrResp(401, "Unauthorized", "Refresh token is missing"))
             ELSE IF q.client_id = Nil
             THEN ~findFails /\ done(ErrResp(400, "Missing refresh_token or client_id", Nil))
             ELSE IF findFails
             THEN done(ErrResp(500, "Database connection error", Nil))
             ELSE IF se = << >> \/ se[1].revoked = TRUE
             THEN done(ErrResp(400, "Invalid or revoked session", Nil))
             ELSE proceed(se, "updateSession")
        ELSE ~findFails /\ done(ErrResp(400, "Unsupported grant_type", Nil))
     /\ UNCHANGED <<sideVars, clients, production, utilVars, now, challenges, authcodes, sessions,
                    nChal, nCode, minted, redeemed, refreshed, verified, known>>

\* handleToken that marks the code used when the PKCE check refuses it
TokenBegin_burning(q, findFails) ==
  LET isCode == q.grant_type = "authorization_code"
      op == IF isCode THEN "code" ELSE "refresh"
      ac == findAuthCode(q.client_id, q.code)
      se == findSessionByRefreshToken(q.cookie)
      hist == IF findFails THEN History(op, Key(op, q), redeemed, << >>)
              ELSE IF isCode THEN History(op, q.code, redeemed, ac)
              ELSE History(op, q.cookie, refreshed, se)
      r0 == Frame(op, "begin", q, << >>, << >>, 0, hist, NoResp)
      done(resp) == Answer(r0, resp) /\ UNCHANGED nTok
      \* answered after the authorization code was read and found unused
      refuse(resp) == Answer([r0 EXCEPT !.doc = ac], resp) /\ UNCHANGED nTok
      proceed(doc, pc) ==
         /\ nTok < MaxSessions
         /\ nTok' = nTok + 1
         /\ Suspend(Frame(op, pc, q, doc, << >>, nTok + 1, hist, NoResp))
      calc == calculatePKCEChallenge(q.code_verifier, "S256")
      pkceRefused == /\ isCode /\ ~findFails /\ q.code # 0 /\ q.client_id # Nil
                     /\ ac # << >> /\ ~ac[1].used
                     /\ StrTruthy(ac[1].pkce_challenge)
                     /\ \/ ~StrTruthy(q.code_verifier)
                        \/ ac[1].pkce_challenge_method # "S256"
                        \/ ~calc.ok
                        \/ calc.value # ac[1].pkce_challenge
  IN /\ CanBegin
     /\ IF pkceRefused THEN updateAuthCode(q.client_id, q.code)
        ELSE UNCHANGED authcodes
     /\ findFails => faults < MaxFaults
     /\ faults' = IF findFails THEN faults + 1 ELSE faults
     /\ IF q.grant_type = Nil
        THEN ~findFails /\ done(ErrResp(400, "Missing grant_type", Nil))
        ELSE IF isCode
        THEN IF q.code = 0 \/ q.client_id = Nil
             THEN ~findFails /\ done(ErrResp(400, "Missing code or client_id", Nil))
             ELSE IF findFails
             THEN done(ErrResp(500, "Database connection error", Nil))
             ELSE IF ac = << >> \/ ac[1].used
             THEN done(ErrResp(400, "Invalid or used code", Nil))
             ELSE IF StrTruthy(ac[1].pkce_challenge) /\ ~StrTruthy(q.code_verifier)
             THEN refuse(ErrResp(400, "invalid_grant",
                         "PKCE code_verifier is required but was not supplied"))
             ELSE IF StrTruthy(ac[1].pkce_challenge) /\ ac[1].pkce_challenge_method # "S256"
             THEN refuse(ErrResp(400, "invalid_grant", "Unsupported PKCE method"))
             ELSE IF StrTruthy(ac[1].pkce_challenge) /\ ~calc.ok
             THEN refuse(ErrResp(500, "server_error", "Failed to verify code challenge"))
             ELSE IF StrTruthy(ac[1].pkce_challenge) /\ calc.value # ac[1].pkce_challenge
             THEN refuse(ErrResp(400, "invalid_grant",
                         "code_verifier does not match code_challenge"))
             ELSE proceed(ac, "updateAuthCode")
        ELSE IF q.grant_type = "refresh_token"
        THEN IF q.cookie = 0
             THEN ~findFails /\ done(ErrResp(401, "Unauthorized", "Refresh token is missing"))
             ELSE IF q.client_id = Nil
             THEN ~findFails /\ done(ErrResp(400, "Missing refresh_token or client_id", Nil))
             ELSE IF findFails
             THEN done(ErrResp(500, "Database connection error", Nil))
             ELSE IF se = << >> \/ se[1].revoked = TRUE
             THEN done(ErrResp(400, "Invalid or revoked session", Nil))
             ELSE proceed(se, "updateSession")
        ELSE ~findFails /\ done(ErrResp(400, "Unsupported grant_type", Nil))
     /\ UNCHANGED <<sideVars, clients, production, utilVars, now, challenges, sessions,
                    nChal, nCode, minted, redeemed, refreshed, verified, known>>

\* handleToken lines 37-70, then handleAuthorizationCodeGrant lines 91-153
\* (findAuthCode, used check, PKCE, generateJWT, uuidv4) or
\* handleRefreshTokenGrant lines 204-221 (findSessionByRefreshToken, revoked
\* check, generateJWT, uuidv4).  0 / Nil stand for a missing body field.
TokenBegin(q, findFails) ==
  LET isCode == q.grant_type = "authorization_code"
      op == IF isCode THEN "code" ELSE "refresh"
      ac == findAuthCode(q.client_id, q.code)
      se == findSessionByRefreshToken(q.cookie)
      hist == IF findFails THEN History(op, Key(op, q), redeemed, << >>)
              ELSE IF isCode THEN History(op, q.code, redeemed, ac)
              ELSE History(op, q.cookie, refreshed, se)
      r0 == Frame(op, "begin", q, << >>, << >>, 0, hist, NoResp)
      done(resp) == Answer(r0, resp) /\ UNCHANGED nTok
      \* answered after the authorization code was read and found unused
      refuse(resp) == Answer([r0 EXCEPT !.doc = ac], resp) /\ UNCHANGED nTok
      proceed(doc, pc) ==
         /\ nTok < MaxSessions
         /\ nTok' = nTok + 1
         /\ Suspend(Frame(op, pc, q, doc, << >>, nTok + 1, hist, NoResp))
      calc == calculatePKCEChallenge(q.code_verifier, "S256")
  IN /\ CanBegin
     /\ findFails => faults < MaxFaults
     /\ faults' = IF findFails THEN faults + 1 ELSE faults
     /\ IF q.grant_type = Nil
        THEN ~findFails /\ done(ErrResp(400, "Missing grant_type", Nil))
        ELSE IF isCode
        THEN IF q.code = 0 \/ q.client_id = Nil
             THEN ~findFails /\ done(ErrResp(400, "Missing code or client_id", Nil))
             ELSE IF findFails
             THEN done(ErrResp(500, "Database connection error", Nil))
             ELSE IF ac = << >> \/ ac[1].used
             THEN done(ErrResp(400, "Invalid or used code", Nil))
             ELSE IF StrTruthy(ac[1].pkce_challenge) /\ ~StrTruthy(q.code_verifier)
             THEN refuse(ErrResp(400, "invalid_grant",
                         "PKCE code_verifier is required but was not supplied"))
             ELSE IF StrTruthy(ac[1].pkce_challenge) /\ ac[1].pkce_challenge_method # "S256"
             THEN refuse(ErrResp(400, "invalid_grant", "Unsupported PKCE method"))
             ELSE IF StrTruthy(ac[1].pkce_challenge) /\ ~calc.ok
             THEN refuse(ErrResp(500, "server_error", "Failed to verify code challenge"))
             ELSE IF StrTruthy(ac[1].pkce_challenge) /\ calc.value # ac[1].pkce_challenge
             THEN refuse(ErrResp(400, "invalid_grant",
                         "code_verifier does not match code_challenge"))
             ELSE proceed(ac, "updateAuthCode")
        ELSE IF q.grant_type = "refresh_token"
        THEN IF q.cookie = 0
             THEN ~findFails /\ done(ErrResp(401, "Unauthorized", "Refresh token is missing"))
             ELSE IF q.client_id = Nil
             THEN ~findFails /\ done(ErrResp(400, "Missing refresh_token or client_id", Nil))
             ELSE IF findFails
             THEN done(ErrResp(500, "Database connection error", Nil))
             ELSE IF se = << >> \/ se[1].revoked = TRUE
             THEN done(ErrResp(400, "Invalid or revoked session", Nil))
             ELSE proceed(se, "updateSession")
        ELSE ~findFails /\ done(ErrResp(400, "Unsupported grant_type", Nil))
     /\ UNCHANGED <<sideVars, clients, production, utilVars, now, challenges, authcodes, sessions,
                    nChal, nCode, minted, redeemed, refreshed, verified, known>>

\* handleAuthorizationCodeGrant lines 155-160: mark the code used; a failed
\* update (driver error, or no document matched) is logged and ignored
TokenUpdateAuthCode(r, fails) ==
     /\ r.op = "code" /\ r.pc = "updateAuthCode"
     /\ fails => faults < MaxFaults
     /\ IF fails
        THEN faults' = faults + 1 /\ UNCHANGED authcodes
        ELSE updateAuthCode(r.inp.client_id, r.inp.code) /\ UNCHANGED faults
     /\ Resume(r, [r EXCEPT !.pc = "insertSession"])
     /\ UNCHANGED <<sideVars, clients, production, utilVars, now, challenges, sessions, nChal, nCode,
                    nTok, minted, redeemed, refreshed, verified, known>>

\* handleRefreshTokenGrant lines 223-228: revoke the presented session; a
\* failed update is logged and ignored
TokenUpdateSession(r, fails) ==
     /\ r.op = "refresh" /\ r.pc = "updateSession"
     /\ fails => faults < MaxFaults
     /\ IF fails
        THEN faults' = faults + 1 /\ UNCHANGED sessions
        ELSE updateSession(r.doc[1].session_id) /\ UNCHANGED faults
     /\ Resume(r, [r EXCEPT !.pc = "insertSession"])
     /\ UNCHANGED <<sideVars, clients, production, utilVars, now, challenges, authcodes, nChal, nCode,
                    nTok, minted, redeemed, refreshed, verified, known>>

\* history: the signer verify-signature verified when it minted code c
SignerOfCode(c) == {m[3] : m \in {x \in minted : x[1] = c}}

\* history: the verified signer of the authorization code at the start of
\* the chain of rotations that produced refresh token t
OriginOf(t) == {o[2] : o \in {x \in known.origin : x[1] = t}}

\* handleAuthorizationCodeGrant lines 162-189 and handleRefreshTokenGrant
\* lines 230-257: store the new session (a failure is logged and ignored),
\* set the cookie and answer 200 with the token pair.  session_id and
\* refresh_token are two uuidv4() values of the same document; one
\* identifier stands for both.
TokenInsertSession(r, fails) ==
  LET d == r.doc[1]
      accessToken == generateJWT(d.symbol_address, d.symbol_public_key,
                                 r.inp.client_id)
      doc == newSessionDoc(r.fresh, r.inp.client_id, r.fresh, accessToken,
                           d.symbol_address, d.symbol_public_key)
      resp == OkResp(200, [access_token |-> accessToken, refresh_token |-> r.fresh,
                           expires_in |-> JWT_EXPIRES_IN, cookie |-> r.fresh])
  IN /\ r.op \in {"code", "refresh"} /\ r.pc = "insertSession"
     /\ fails => faults < MaxFaults
     /\ IF fails
        THEN faults' = faults + 1 /\ UNCHANGED sessions
        ELSE insertSession(doc, REFRESH_TOKEN_EXPIRATION) /\ UNCHANGED faults
     /\ Finish(r, resp)
     /\ IF r.op = "code"
        THEN /\ redeemed' = [redeemed EXCEPT ![r.inp.code] = @ + 1]
             /\ known' = [known EXCEPT !.tokens = @ \cup {r.fresh},
                                       !.origin = @ \cup
                                          {<<r.fresh, s>> : s \in SignerOfCode(r.inp.code)}]
             /\ UNCHANGED refreshed
        ELSE /\ refreshed' = [refreshed EXCEPT ![r.inp.cookie] = @ + 1]
             /\ known' = [known EXCEPT !.tokens = @ \cup {r.fresh},
                                       !.rotated = @ \cup {r.fresh},
                                       !.origin = @ \cup
                                          {<<r.fresh, s>> : s \in OriginOf(r.inp.cookie)}]
             /\ UNCHANGED redeemed
     /\ UNCHANGED <<sideVars, clients, production, utilVars, now, challenges, authcodes, nChal, nCode,
                    nTok, minted, verified>>

(***************************************************************************)
(* logout (handleLogout over the MongoDB store)                            *)
(***************************************************************************)
\* the request body
LogoutReq(token) == [refresh_token |-> token]

\* Lines 16-45: body check, findSessionByRefreshToken, revoked check.
\* 0 stands for a missing refresh_token.
LogoutBegin(q, findFails) ==
  LET se == findSessionByRefreshToken(q.refresh_token)
      hist == History("logout", q.refresh_token, [t \in {} |-> 0],
                      IF findFails THEN << >> ELSE se)
      r0 == Frame("logout", "begin", q, << >>, << >>, 0, hist, NoResp)
  IN /\ CanBegin
     /\ findFails => faults < MaxFaults
     /\ faults' = IF findFails THEN faults + 1 ELSE faults
     /\ IF q.refresh_token = 0
        THEN ~findFails /\ Answer(r0, ErrResp(400, "Missing refresh_token", Nil))
        ELSE IF findFails
        THEN Answer(r0, ErrResp(500, "Database connection error", Nil))
        ELSE IF se = << >>
        THEN Answer(r0, ErrResp(400, "Invalid refresh_token", Nil))
        ELSE IF se[1].revoked
        THEN Answer(r0, ErrResp(400, "Session already revoked", Nil))
        ELSE Suspend([r0 EXCEPT !.pc = "updateSession", !.doc = se])
     /\ UNCHANGED <<sideVars, clients, production, utilVars, now, challenges, authcodes, sessions,
                    nChal, nCode, nTok, minted, redeemed, refreshed, verified,
                    known>>

\* handleLogout with the failed update treated as fatal: it answers 500
LogoutUpdateSession_strict(r, fails) ==
     /\ r.op = "logout" /\ r.pc = "updateSession"
     /\ fails => faults < MaxFaults
     /\ IF fails
        THEN /\ faults' = faults + 1
             /\ Finish(r, ErrResp(500, "Database connection error", Nil))
             /\ UNCHANGED <<sessions, known>>
        ELSE /\ updateSession(r.doc[1].session_id)
             /\ Finish(r, OkResp(200, [status |-> "ok", message |-> "session revoked"]))
             /\ known' = [known EXCEPT !.ended = @ \cup {r.inp.refresh_token}]
             /\ UNCHANGED faults
     /\ UNCHANGED <<sideVars, clients, production, utilVars, now, challenges, authcodes, nChal, nCode,
                    nTok, minted, redeemed, refreshed, verified>>

\* Lines 47-57: revoke the session; a failed update is logged and ignored;
\* answer 200 { status: 'ok', message: 'session revoked' }
LogoutUpdateSession(r, fails) ==
     /\ r.op = "logout" /\ r.pc = "updateSession"
     /\ fails => faults < MaxFaults
     /\ IF fails
        THEN faults' = faults + 1 /\ UNCHANGED sessions
        ELSE updateSession(r.doc[1].session_id) /\ UNCHANGED faults
     /\ Finish(r, OkResp(200, [status |-> "ok", message |-> "session revoked"]))
     /\ known' = [known EXCEPT !.ended = @ \cup {r.inp.refresh_token}]
     /\ UNCHANGED <<sideVars, clients, production, utilVars, now, challenges, authcodes, nChal, nCode,
                    nTok, minted, redeemed, refreshed, verified>>

(***************************************************************************)
(* userinfo (services/userinfo.ts) and the token verifier (utils/jwt.ts)   *)
(***************************************************************************)
ACCESS_TOKEN_EXPIRATION == 900

\* a bearer token: the claims, whether the HMAC signature is the server's,
\* and the exp claim (iat + JWT_EXPIRES_IN)
Bearer(claims, signed, iat) ==
  [claims |-> claims, signed |-> signed, exp |-> iat + JWT_EXPIRES_IN]

\* jwt.verify(token, JWT_SECRET): FALSE is the error it throws
jwt_verify(token) == token.signed /\ now < token.exp

\* the Authorization header; scheme Nil = no header, token << >> = none
AuthHeader(scheme, token) == [scheme |-> scheme, token |-> token]

\* the key of a document in the unique index { access_token: 1 }: a
\* document without the field is indexed under null
BlacklistIndexKey(doc) ==
  IF "access_token" \in DOMAIN doc THEN doc.access_token ELSE Nil

\* handleUserinfo with verifyAndRevokeJWT and addBlacklistEntry: the
\* blacklist write is started and not awaited, and the answer is sent while
\* the write is pending
handleUserinfo(h) ==
  LET r0 == Frame("userinfo", "begin", h, << >>, << >>, 0,
                  [NoHistory EXCEPT !.stale = IF h.scheme = "Bearer"
                                              THEN h.token[1].exp <= now ELSE FALSE],
                  NoResp)
      pending == {r \in inflight : r.op = "blacklist" /\ r.inp = h}
      \* tells the pending writes of the same token apart
      n == CHOOSE k \in 1..MaxReqs :
             /\ k \notin {r.fresh : r \in pending}
             /\ \A j \in 1..(k - 1) : j \in {r.fresh : r \in pending}
  IN /\ CanBegin
     /\ IF h.scheme # "Bearer"
        THEN Answer(r0, ErrResp(401, "Missing or invalid Authorization header", Nil))
        ELSE IF jwt_verify(h.token[1])
        THEN Answer(r0, OkResp(200, [address |-> h.token[1].claims.sub,
                                     publicKey |-> h.token[1].claims.pub,
                                     network |-> SYMBOL_NETWORK_TYPE]))
        ELSE /\ last' = Done(r0, ErrResp(401, "invalid_token",
                                   "The access token is invalid or has expired"))
             /\ inflight' = inflight \cup
                   {Frame("blacklist", "insertOne", h, << >>, << >>, n,
                          NoHistory, NoResp)}
     /\ UNCHANGED <<clients, production, utilVars, now, challenges, authcodes, sessions,
                    nChal, nCode, nTok, faults, minted, redeemed, refreshed,
                    verified, known, sideVars>>

\* insertAccessTokenBlacklist, the write nobody awaits: AccessTokenBlacklist
\* .insertOne rejects on a driver error (fails) and on a duplicate key of
\* the unique index
BlacklistInsert(r, fails) ==
  LET doc == [jwt_id |-> r.inp.token[1], expires_at |-> now + ACCESS_TOKEN_EXPIRATION]
      duplicate == \E d \in blacklist : BlacklistIndexKey(d) = BlacklistIndexKey(doc)
  IN /\ r.op = "blacklist" /\ r.pc = "insertOne"
     /\ fails => faults < MaxFaults
     /\ faults' = IF fails THEN faults + 1 ELSE faults
     /\ IF fails
        THEN unhandled' = unhandled \cup {<<"store error", r.inp.token[1]>>}
             /\ UNCHANGED blacklist
        ELSE IF duplicate
        THEN unhandled' = unhandled \cup {<<"E11000 duplicate key", r.inp.token[1]>>}
             /\ UNCHANGED blacklist
        ELSE blacklist' = blacklist \cup {doc} /\ UNCHANGED unhandled
     /\ inflight' = inflight \ {r}
     /\ UNCHANGED <<clients, production, utilVars, now, challenges, authcodes, sessions,
                    last, nChal, nCode, nTok, minted, redeemed, refreshed,
                    verified, known, allowedOriginsCache, cacheLastUpdated,
                    fetches>>

(***************************************************************************)
(* The allowed origins of the CORS middleware (index.ts,                   *)
(* getCachedAllowedOrigins; db/mongo.ts, getAllowedOriginsFromMongo)       *)
(***************************************************************************)
CACHE_TTL == 300                  \* CACHE_TTL_MS, in seconds

\* process.env.CORS_ORIGIN (set)
CORS_ORIGIN == <<"https", ":", "//", "app.example">>

\* extractOrigin(url): new URL(url).origin; << >> is null (the URL does not
\* parse); the origin of a URL with a non-special scheme is the string "null"
extractOrigin(u) ==
  LET url == ParseUrl(u)
  IN IF ~url.ok THEN << >>
     ELSE IF url.protocol \in SpecialSchemes THEN <<SubSeq(u, 1, 4)>>
     ELSE <<<<"null">>>>

\* Array.from(new Set(a)): the first occurrence of every element, in order
RECURSIVE Distinct(_)
Distinct(a) ==
  IF Len(a) = 0 THEN << >>
  ELSE LET front == Distinct(SubSeq(a, 1, Len(a) - 1))
           x == a[Len(a)]
       IN IF \E i \in 1..Len(front) : front[i] = x THEN front
          ELSE Append(front, x)

\* the origins of one client document
ClientOrigins(t) ==
  LET uris == IF t.kind = "string" THEN <<t.v>>
              ELSE IF t.kind = "array" THEN t.v ELSE << >>
      RECURSIVE Origins(_)
      Origins(us) == IF Len(us) = 0 THEN << >>
                     ELSE extractOrigin(Head(us)) \o Origins(Tail(us))
  IN Origins(uris)

\* getAllowedOriginsFromMongo() over the registry
getAllowedOriginsFromMongo(reg) ==
  Distinct(ClientOrigins(reg.clientA) \o ClientOrigins(reg.clientB))

\* what getCachedAllowedOrigins returns
Returned(list) == [status |-> 0, error |-> Nil, desc |-> Nil, out |-> <<list>>]

\* Lines 31-37: a call of getCachedAllowedOrigins; inp.now is its local
\* `now`.  It returns the cached list, or suspends at the fetch.
OriginsBegin ==
  LET r0 == Frame("origins", "begin", [now |-> now], << >>, << >>, 0,
                  NoHistory, NoResp)
      pending == {r \in inflight : r.op = "origins" /\ r.inp = r0.inp}
      \* tells the pending calls of the same instant apart
      n == CHOOSE k \in 1..MaxReqs :
             /\ k \notin {r.fresh : r \in pending}
             /\ \A j \in 1..(k - 1) : j \in {r.fresh : r \in pending}
  IN /\ CanBegin
     /\ IF Len(allowedOriginsCache) > 0 /\ now - cacheLastUpdated < CACHE_TTL
        THEN Answer(r0, Returned(allowedOriginsCache))
        ELSE Suspend([r0 EXCEPT !.pc = "fetch", !.fresh = n])
     /\ UNCHANGED <<clients, production, utilVars, now, challenges, authcodes, sessions,
                    nChal, nCode, nTok, faults, minted, redeemed, refreshed,
                    verified, known, sideVars>>

\* getCachedAllowedOrigins that answers a failed fetch with the default
\* origin alone
OriginsFetch_default(r, fails) ==
  LET origins == getAllowedOriginsFromMongo(clients) \o <<CORS_ORIGIN>>
  IN /\ r.op = "origins" /\ r.pc = "fetch"
     /\ fails => faults < MaxFaults
     /\ IF fails
        THEN /\ faults' = faults + 1
             /\ Finish(r, Returned(<<CORS_ORIGIN>>))
             /\ UNCHANGED <<allowedOriginsCache, cacheLastUpdated, fetches>>
        ELSE /\ allowedOriginsCache' = origins
             /\ cacheLastUpdated' = r.inp.now
             /\ fetches' = fetches \cup {<<r.inp.now, origins>>}
             /\ last' = Done([r EXCEPT !.doc = <<origins>>], Returned(origins))
             /\ inflight' = inflight \ {r}
             /\ UNCHANGED faults
     /\ UNCHANGED <<clients, production, utilVars, now, challenges, authcodes, sessions,
                    nChal, nCode, nTok, minted, redeemed, refreshed, verified,
                    known, blacklist, unhandled>>

\* getCachedAllowedOrigins that adds the fetched origins to the cached list
OriginsFetch_merging(r, fails) ==
  LET origins == getAllowedOriginsFromMongo(clients) \o <<CORS_ORIGIN>>
  IN /\ r.op = "origins" /\ r.pc = "fetch"
     /\ fails => faults < MaxFaults
     /\ IF fails
        THEN /\ faults' = faults + 1
             /\ Finish(r, Returned(IF Len(allowedOriginsCache) > 0
                                   THEN allowedOriginsCache
                                   ELSE <<CORS_ORIGIN>>))
             /\ UNCHANGED <<allowedOriginsCache, cacheLastUpdated, fetches>>
        ELSE /\ allowedOriginsCache' = Distinct(allowedOriginsCache \o origins)
             /\ cacheLastUpdated' = r.inp.now
             /\ fetches' = fetches \cup {<<r.inp.now, origins>>}
             /\ last' = Done([r EXCEPT !.doc = <<origins>>], Returned(origins))
             /\ inflight' = inflight \ {r}
             /\ UNCHANGED faults
     /\ UNCHANGED <<clients, production, utilVars, now, challenges, authcodes, sessions,
                    nChal, nCode, nTok, minted, redeemed, refreshed, verified,
                    known, blacklist, unhandled>>

\* Lines 39-77: the fetch returns or fails.  On success the cache and its
\* time are replaced and the new list is returned; on failure the cached
\* list is returned if there is one, else CORS_ORIGIN alone.
OriginsFetch(r, fails) ==
  LET origins == getAllowedOriginsFromMongo(clients) \o <<CORS_ORIGIN>>
  IN /\ r.op = "origins" /\ r.pc = "fetch"
     /\ fails => faults < MaxFaults
     /\ IF fails
        THEN /\ faults' = faults + 1
             /\ Finish(r, Returned(IF Len(allowedOriginsCache) > 0
                                   THEN allowedOriginsCache
                                   ELSE <<CORS_ORIGIN>>))
             /\ UNCHANGED <<allowedOriginsCache, cacheLastUpdated, fetches>>
        ELSE /\ allowedOriginsCache' = origins
             /\ cacheLastUpdated' = r.inp.now
             /\ fetches' = fetches \cup {<<r.inp.now, origins>>}
             /\ last' = Done([r EXCEPT !.doc = <<origins>>], Returned(origins))
             /\ inflight' = inflight \ {r}
             /\ UNCHANGED faults
     /\ UNCHANGED <<clients, production, utilVars, now, challenges, authcodes, sessions,
                    nChal, nCode, nTok, minted, redeemed, refreshed, verified,
                    known, blacklist, unhandled>>

\* a client is registered or changed while the server runs
RegistryChange ==
  /\ clients' \in Registries \ {clients}
  /\ UNCHANGED <<production, utilVars, now, challenges, authcodes, sessions, inflight,
                 last, nChal, nCode, nTok, faults, minted, redeemed, refreshed,
                 verified, known, sideVars>>

(***************************************************************************)
(* The clock and the store's TTL monitor                                   *)
(* (indexes { expires_at: 1 }, expireAfterSeconds: 0, db/mongo.ts:86-129)  *)
(***************************************************************************)
Tick ==
  /\ now < MaxTicks * TickStep
  /\ now' = now + TickStep
  /\ UNCHANGED <<sideVars, clients, production, utilVars, challenges, authcodes, sessions, inflight,
                 last, nChal, nCode, nTok, faults, minted, redeemed, refreshed,
                 verified, known>>

Expired(d) == d.expires_at <= now

\* the monitor runs in the background, some time after the expiry instant
TTLReaper ==
  /\ \E d \in challenges \cup authcodes \cup sessions : Expired(d)
  /\ challenges' = {d \in challenges : ~Expired(d)}
  /\ authcodes' = {d \in authcodes : ~Expired(d)}
  /\ sessions' = {d \in sessions : ~Expired(d)}
  /\ UNCHANGED <<sideVars, clients, production, utilVars, now, inflight, last, nChal, nCode, nTok,
                 faults, minted, redeemed, refreshed, verified, known>>

(***************************************************************************)
(* Requests the environment sends                                          *)
(***************************************************************************)
AuthorizeQuery(rt, cid, uri) ==
  [response_type |-> rt, client_id |-> cid, redirect_uri |-> uri]

\* the sign-on flow of client A: well-formed requests (the malformed ones
\* are the subject of the specifications of the single handlers)
FlowAuthorizeQueries ==
  {AuthorizeQuery("code", "clientA", u) : u \in {UCb, UPrefix, UEvil}}

\* every shape of query string the authorize endpoint can receive
AuthorizeQueries ==
  {AuthorizeQuery(rt, cid, u) :
     rt \in {"code", "token", UndefParam, ArrayParam},
     cid \in {"clientA", "clientB", "clientX", "", UndefParam, ArrayParam},
     u \in Uris \cup {UUndef, UArray}}

\* registries the authorize endpoint can meet: a client document may hold a
\* string, an array of strings, or no trusted_redirect_uri at all
AuthorizeRegistries ==
  {[clientA |-> a, clientB |-> StrVal(UB)] :
     a \in {StrVal(UCb), ArrVal(<<UCb, ULocal>>), Undefined}}

\* an identifier no response has handed out
Unknown == -1

\* uuids cannot be guessed: a request presents an identifier that a
\* response has handed out, or an unknown one
FlowPayloads ==
  {Payload("testnet", TRUE, "transfer", "json",
           Json("clientA", ch, "xyz", Nil, Nil), "PK_ALICE")
     : ch \in known.challenges \cup {Unknown}}

FlowRedeemReqs ==
  {TokenReq("authorization_code", c, "clientA", Nil, 0)
     : c \in known.codes \cup {Unknown}}

FlowRefreshReqs ==
  {TokenReq("refresh_token", 0, "clientA", Nil, t)
     : t \in known.tokens \cup {Unknown}}

FlowTokenReqs == FlowRedeemReqs \cup FlowRefreshReqs

\* the sign-on flow with state and PKCE parameters: what the caller sends to
\* authorize, what the signed message carries and what the caller sends to
\* token are chosen independently of one another
\* <<state, pkce_challenge, pkce_challenge_method>> of a signed message
BoundMessages ==
  {<<"", Nil, Nil>>, <<"xyz", S256("v1"), "S256">>, <<"abc", S256("v1"), "S256">>,
   <<"xyz", S256("v1"), "plain">>, <<"xyz", "v2", "S256">>, <<"xyz", "", "S256">>}

\* <<code_verifier, state>> of a token request
BoundExchanges ==
  {<<Nil, Nil>>, <<"", Nil>>, <<"v1", Nil>>, <<"v2", Nil>>, <<"v1", "abc">>}

BoundAuthorizeQueries ==
  {[response_type |-> "code", client_id |-> "clientA", redirect_uri |-> UCb,
    state |-> st, code_challenge |-> pk[1], code_challenge_method |-> pk[2]]
     : st \in {Nil, "xyz"}, pk \in {<<Nil, Nil>>, <<S256("v1"), "S256">>}}

BoundPayloads ==
  {Payload("testnet", TRUE, "transfer", "json",
           Json("clientA", ch, m[1], m[2], m[3]), "PK_ALICE")
     : ch \in known.challenges, m \in BoundMessages}

BoundTokenReqs ==
  {[grant_type |-> "authorization_code", code |-> c, client_id |-> "clientA",
    code_verifier |-> x[1], cookie |-> 0, state |-> x[2]]
     : c \in known.codes, x \in BoundExchanges}

(***************************************************************************)
(* Specification                                                           *)
(***************************************************************************)
\* the server after start-up, empty store; f = store failures already spent
InitWith(f) ==
  /\ clients \in Registries
  /\ production = FALSE
  /\ now = 0
  /\ challenges = {}
  /\ authcodes = {}
  /\ sessions = {}
  /\ inflight = {}
  /\ last = IdleFrame
  /\ nChal = 0
  /\ nCode = 0
  /\ nTok = 0
  /\ faults = f
  /\ minted = {}
  /\ redeemed = [c \in 1..MaxCodes |-> 0]
  /\ refreshed = [t \in 1..MaxSessions |-> 0]
  /\ verified = [c \in 1..MaxChallenges |-> 0]
  /\ known = [challenges |-> {}, codes |-> {}, tokens |-> {}, rotated |-> {},
              asked |-> {}, ended |-> {}, origin |-> {}]
  /\ blacklist = {}
  /\ unhandled = {}
  /\ allowedOriginsCache = << >>
  /\ cacheLastUpdated = 0
  /\ fetches = {}
  /\ timeStr = << >>
  /\ seconds = -1
  /\ store = {}
  /\ counted = {}

Init == InitWith(0)

AuthorizeWith(queries) ==
  \E q \in queries, findFails \in BOOLEAN, insertFails \in BOOLEAN :
     /\ (findFails \/ insertFails) => faults < MaxFaults
     /\ ~(findFails /\ insertFails)
     /\ CanBegin
     /\ handleAuthorize(q, findFails, insertFails)
     /\ UNCHANGED <<sideVars, clients, production, utilVars, now, authcodes, sessions, nCode,
                    nTok, minted, redeemed, refreshed, verified>>

Authorize == AuthorizeWith(FlowAuthorizeQueries)

VerifySignature ==
  \E p \in FlowPayloads, cf \in BOOLEAN, ff \in BOOLEAN : VerifyBegin(p, cf, ff)

VerifyStore == \E r \in inflight, f \in BOOLEAN : VerifyInsertAuthCode(r, f)

VerifyFinish == \E r \in inflight, f \in BOOLEAN : VerifyDeleteChallenge(r, f)

Token == \E q \in FlowTokenReqs, f \in BOOLEAN : TokenBegin(q, f)

TokenMarkUsed == \E r \in inflight, f \in BOOLEAN : TokenUpdateAuthCode(r, f)

TokenRevokeOld == \E r \in inflight, f \in BOOLEAN : TokenUpdateSession(r, f)

TokenFinish == \E r \in inflight, f \in BOOLEAN : TokenInsertSession(r, f)

Next ==
  \/ Authorize
  \/ VerifySignature
  \/ VerifyStore
  \/ VerifyFinish
  \/ Token
  \/ TokenMarkUsed
  \/ TokenRevokeOld
  \/ TokenFinish

\* the flow within the lifetime of every record: the clock stands still
Spec == Init /\ [][Next]_vars

\* the flow over time, with a store that does not fail
InitTtl == InitWith(MaxFaults)

NextTtl == Next \/ Tick \/ TTLReaper

SpecTtl == InitTtl /\ [][NextTtl]_vars

\* the flow with logout
FlowLogoutReqs == {LogoutReq(t) : t \in known.tokens \cup {Unknown}}

Logout == \E q \in FlowLogoutReqs, f \in BOOLEAN : LogoutBegin(q, f)

LogoutRevoke == \E r \in inflight, f \in BOOLEAN : LogoutUpdateSession(r, f)

\* the life of a session: the sign-on that creates it runs one request at a
\* time, refresh and logout requests overlap
AuthorizeSolo == inflight = {} /\ Authorize

VerifySignatureSolo == inflight = {} /\ VerifySignature

RedeemSolo ==
  /\ inflight = {}
  /\ \E q \in FlowRedeemReqs, f \in BOOLEAN : TokenBegin(q, f)

Refresh == \E q \in FlowRefreshReqs, f \in BOOLEAN : TokenBegin(q, f)

NextLogout ==
  \/ AuthorizeSolo
  \/ VerifySignatureSolo
  \/ VerifyStore
  \/ VerifyFinish
  \/ RedeemSolo
  \/ Refresh
  \/ TokenMarkUsed
  \/ TokenRevokeOld
  \/ TokenFinish
  \/ Logout
  \/ LogoutRevoke

SpecLogout == Init /\ [][NextLogout]_vars

\* the sign-on of two account holders: either of them may sign the
\* challenge, and both may (verify-signature requests overlap)
ChainPayloads ==
  {Payload("testnet", TRUE, "transfer", "json",
           Json("clientA", ch, "xyz", Nil, Nil), pk)
     : ch \in known.challenges, pk \in PublicKeys}

VerifySignatureChain ==
  \E p \in ChainPayloads, cf \in BOOLEAN, ff \in BOOLEAN : VerifyBegin(p, cf, ff)

NextChain ==
  \/ AuthorizeSolo
  \/ VerifySignatureChain
  \/ VerifyStore
  \/ VerifyFinish
  \/ RedeemSolo
  \/ Refresh
  \/ TokenMarkUsed
  \/ TokenRevokeOld
  \/ TokenFinish

SpecChain == Init /\ [][NextChain]_vars

\* the check endpoint beside the sign-on flow
FlowCheckQueries ==
  {AuthorizeQuery("code", "clientA", u) : u \in {UCb, UEvil}}
    \cup {AuthorizeQuery("token", "clientA", UCb),
          AuthorizeQuery("code", "clientX", UCb)}

CheckWith(queries) ==
  \E q \in queries, findFails \in BOOLEAN :
     /\ findFails => faults < MaxFaults
     /\ CanBegin
     /\ handleCheck(q, findFails)

Check == CheckWith(FlowCheckQueries)

\* the sign-on, one request at a time, with check requests at any moment of
\* it
NextProbe ==
  \/ AuthorizeSolo
  \/ VerifySignatureSolo
  \/ VerifyStore
  \/ VerifyFinish
  \/ RedeemSolo
  \/ TokenMarkUsed
  \/ TokenFinish
  \/ Check

SpecProbe == Init /\ [][NextProbe]_vars

\* the userinfo endpoint: no header, another scheme, and bearer tokens of
\* account holder PK_ALICE that are signed by the server or not, and issued
\* just now or almost JWT_EXPIRES_IN ago
BearerIssueTimes == {0, TickStep - JWT_EXPIRES_IN}

AuthHeaders ==
  {AuthHeader(Nil, << >>), AuthHeader("Basic", << >>)}
    \cup {AuthHeader("Bearer",
                     <<Bearer(generateJWT(AddressOf("PK_ALICE"), "PK_ALICE", "clientA"),
                              sg, iat)>>)
            : sg \in BOOLEAN, iat \in BearerIssueTimes}

Userinfo == \E h \in AuthHeaders : handleUserinfo(h)

BlacklistStore == \E r \in inflight, f \in BOOLEAN : BlacklistInsert(r, f)

NextUserinfo ==
  \/ Userinfo
  \/ BlacklistStore
  \/ Tick

SpecUserinfo == Init /\ [][NextUserinfo]_vars

\* the CORS middleware: every request asks for the allowed origins
OriginsCall == OriginsBegin

OriginsStore == \E r \in inflight, f \in BOOLEAN : OriginsFetch(r, f)

NextOrigins ==
  \/ OriginsCall
  \/ OriginsStore
  \/ Tick
  \/ RegistryChange

SpecOrigins == Init /\ [][NextOrigins]_vars

\* the authorize endpoint alone, over every query, registry and environment
InitAuthorize ==
  /\ clients \in AuthorizeRegistries
  /\ production \in BOOLEAN
  /\ now = 0
  /\ challenges = {}
  /\ authcodes = {}
  /\ sessions = {}
  /\ inflight = {}
  /\ last = IdleFrame
  /\ nChal = 0
  /\ nCode = 0
  /\ nTok = 0
  /\ faults = 0
  /\ minted = {}
  /\ redeemed = [c \in 1..MaxCodes |-> 0]
  /\ refreshed = [t \in 1..MaxSessions |-> 0]
  /\ verified = [c \in 1..MaxChallenges |-> 0]
  /\ known = [challenges |-> {}, codes |-> {}, tokens |-> {}, rotated |-> {},
              asked |-> {}, ended |-> {}, origin |-> {}]
  /\ blacklist = {}
  /\ unhandled = {}
  /\ allowedOriginsCache = << >>
  /\ cacheLastUpdated = 0
  /\ fetches = {}
  /\ timeStr = << >>
  /\ seconds = -1
  /\ store = {}
  /\ counted = {}

AuthorizeAny == AuthorizeWith(AuthorizeQueries)

NextAuthorize == AuthorizeAny

SpecAuthorize == InitAuthorize /\ [][NextAuthorize]_vars

\* the authorize and check endpoints side by side: the same query may be
\* sent to either
ProbeQueries ==
  {AuthorizeQuery(rt, cid, u) :
     rt \in {"code", "token", UndefParam, ArrayParam},
     cid \in {"clientA", "clientX", "", UndefParam},
     u \in {UCb, UPrefix, UEvil, UHttp, ULocal, UNoScheme, UEmpty, UUndef, UArray}}

AuthorizeProbe == AuthorizeWith(ProbeQueries)

CheckProbe == CheckWith(ProbeQueries)

NextCheck == AuthorizeProbe \/ CheckProbe

SpecCheck == InitAuthorize /\ [][NextCheck]_vars

\* the flow with state and PKCE parameters, with a store that does not fail:
\* one sign-on after the other and one request at a time (overlapping
\* requests are the subject of Spec)
AuthorizeBound ==
  /\ inflight = {} /\ challenges = {}
  /\ AuthorizeWith(BoundAuthorizeQueries)

VerifySignatureBound ==
  /\ inflight = {}
  /\ \E p \in BoundPayloads : VerifyBegin(p, FALSE, FALSE)

TokenBound ==
  /\ inflight = {}
  /\ \E q \in BoundTokenReqs : TokenBegin(q, FALSE)

NextBound ==
  \/ AuthorizeBound
  \/ VerifySignatureBound
  \/ VerifyStore
  \/ VerifyFinish
  \/ TokenBound
  \/ TokenMarkUsed
  \/ TokenFinish

SpecBound == InitTtl /\ [][NextBound]_vars

(***************************************************************************)
(* Properties                                                              *)
(***************************************************************************)
\* C1: in executions where no store call fails, however token requests
\* that redeem the same authorization code interleave, at most one of them
\* is answered 200 with tokens.
C1_AtMostOneRedemption ==
  faults = 0 => \A c \in DOMAIN redeemed : redeemed[c] <= 1

\* C2: a token(authorization_code) request that starts after a 200 answer
\* for the same code is answered 400 'Invalid or used code', whatever became
\* of the store writes of the first request (a failed lookup, 500, aside).
C2_SecondRedemptionRejected ==
  (last.op = "code" /\ last.hist.late /\ last.resp.status # 500)
    => (last.resp.status = 400 /\ last.resp.error = "Invalid or used code")

\* C3: in executions where no store call fails, however token requests
\* that present the same refresh token interleave, at most one of them is
\* answered 200.
C3_AtMostOneRefresh ==
  faults = 0 => \A t \in DOMAIN refreshed : refreshed[t] <= 1

\* C4: a token(refresh_token) request that starts after a 200 answer for the
\* same refresh token is never answered 200.
C4_RotatedTokenNeverAccepted ==
  (last.op = "refresh" /\ last.hist.late) => last.resp.status # 200

\* C5: for a refresh token R' that a refresh answer handed out, the first
\* request presenting R' (none before it, none beside it, lookup not failed)
\* is answered 200, and a request that starts after that 200 is not.
C5_NewTokenWorksOnce ==
  (last.op = "refresh" /\ last.inp.cookie \in known.rotated
     /\ last.resp.status # 500)
    => /\ last.hist.sole => last.resp.status = 200
       /\ last.hist.late => last.resp.status # 200

\* C6: a verify-signature request that starts after a success answer for the
\* same challenge is answered 400 'Invalid or expired challenge' (a failed
\* lookup, 500, aside).
C6_SecondVerifyRejected ==
  (last.op = "verify" /\ last.hist.late /\ last.resp.status # 500)
    => (last.resp.status = 400
          /\ last.resp.error = "Invalid or expired challenge")

\* C7: in executions where no store call fails, however verify-signature
\* requests presenting the same challenge interleave, at most one
\* authorization code is stored for that challenge.
C7_OneCodePerChallenge ==
  faults = 0 =>
    \A ch \in 1..MaxChallenges : Cardinality({m \in minted : m[2] = ch}) <= 1

\* C8: no verify-signature or token request is accepted on a challenge,
\* authorization code or session that it read after the record's expires_at,
\* whether or not the TTL monitor has removed the record by then.
C8_ExpiredNeverAccepted ==
  (last.op \in {"verify", "code", "refresh"} /\ last.resp.status \in {200, 302})
    => ~last.hist.stale

\* the trusted redirect URIs of a client document
TrustedUris(t) == IF t.kind = "string" THEN {t.v}
                  ELSE IF t.kind = "array" THEN {t.v[i] : i \in 1..Len(t.v)}
                  ELSE {}

\* C9: authorize answers 400 invalid_request to a request of a registered
\* client (response_type code, registry read succeeded) whose redirect_uri
\* is not equal to one of the client's trusted redirect URIs.
C9_ExactRedirectMatch ==
  LET cli == findClient(clients, last.inp.client_id)
  IN (/\ last.op = "authorize"
      /\ last.inp.response_type = "code"
      /\ cli # << >>
      /\ Truthy(cli[1].trusted_redirect_uri)
      /\ last.inp.redirect_uri \notin TrustedUris(cli[1].trusted_redirect_uri)
      /\ last.resp.status # 500)
     => (last.resp.status = 400 /\ last.resp.error = "invalid_request")

\* C10: the Location of the 302 answer of verify-signature, without the
\* code and state parameters, is the redirect_uri recorded in the challenge
\* the request consumed (as the URL serialiser writes it).
C10_RedirectToChallengeUri ==
  (last.op = "verify" /\ last.resp.status = 302)
    => last.resp.out[1].location = ParseUrl(last.doc[1].redirect_uri).href

\* a token(authorization_code) handler that read an unused authorization
\* code carrying a code_challenge
ReadPkceCode(r) ==
  r.op = "code" /\ r.doc # << >> /\ StrTruthy(r.doc[1].pkce_challenge)

\* the request's code_verifier hashes to the stored code_challenge
VerifierMatches(r) ==
  /\ StrTruthy(r.inp.code_verifier)
  /\ S256(r.inp.code_verifier) = r.doc[1].pkce_challenge

AskedFor(ch) == {a[2] : a \in {x \in known.asked : x[1] = ch}}

\* what authorize was asked when it issued the challenge that authorization
\* code c was minted from
AskedForCode(c) ==
  UNION {AskedFor(m[2]) : m \in {x \in minted : x[1] = c}}

\* C12: the pkce_challenge and pkce_challenge_method stored on an
\* authorization code are the code_challenge and code_challenge_method that
\* were supplied to authorize for the challenge the code was minted from.
C12_PkceCarriedForward ==
  \A d \in authcodes : \A a \in AskedForCode(d.auth_code) :
     /\ d.pkce_challenge = a.code_challenge
     /\ d.pkce_challenge_method = a.code_challenge_method

C14_StateEchoed ==
  (last.op = "verify" /\ last.resp.status = 302)
    => \A a \in AskedFor(last.doc[1].challenge) :
          StrTruthy(a.state) => last.resp.out[1].state = a.state

\* C15: a token(refresh_token) request that starts after a logout of the
\* same refresh token was answered 200 is never answered 200.
C15_NoRefreshAfterLogout ==
  (last.op = "refresh" /\ last.hist.ended) => last.resp.status # 200

\* C16: a logout request that starts after a logout of the same refresh
\* token was answered 200 is answered 400 (a failed lookup, 500, aside).
C16_SecondLogoutRejected ==
  (last.op = "logout" /\ last.hist.ended /\ last.resp.status # 500)
    => last.resp.status = 400

\* handler r ends in this step and a store call fails in this step
EndsWithFailedWrite(r) == r \notin inflight' /\ faults' = faults + 1

\* C17: when the update that marks the session revoked fails, logout
\* answers that request 200 with status 'ok'.
C17_LogoutBestEffort ==
  [][\A r \in inflight :
       (r.op = "logout" /\ EndsWithFailedWrite(r))
         => /\ last'.op = "logout" /\ last'.inp = r.inp
            /\ last'.resp.status = 200
            /\ last'.resp.out[1].status = "ok"]_vars

\* a logout was answered 200 and the session it presented is not revoked
C17_Witness ==
  /\ last.op = "logout" /\ last.resp.status = 200
  /\ \E d \in sessions : d.refresh_token = last.inp.refresh_token /\ ~d.revoked

C19_RedeemedCodeStaysUsed ==
  /\ \A m \in minted : \E d \in authcodes : d.auth_code = m[1]
  /\ \A c \in DOMAIN redeemed :
       redeemed[c] > 0 => \E d \in authcodes : d.auth_code = c /\ d.used

\* C20: when a token request is answered 200, the refresh token in the
\* answer is that of a stored session with revoked = FALSE.
C20_ReturnedTokenPersisted ==
  [][\A r \in inflight :
       (r.op \in {"code", "refresh"} /\ r.pc = "insertSession"
          /\ r \notin inflight' /\ last'.resp.status = 200)
         => \E d \in sessions' :
               d.refresh_token = last'.resp.out[1].refresh_token /\ ~d.revoked]_vars

\* the session documents and the access token carry the signer's identity
BoundTo(addr, pub, jwt, signer) ==
  /\ pub = signer /\ addr = AddressOf(signer)
  /\ jwt.pub = signer /\ jwt.sub = AddressOf(signer)

\* C21: every session stored by token, and every access token answered by
\* token, carries the address and public key of the signer that
\* verify-signature verified for the authorization code at the start of the
\* chain of rotations.
C21_IdentityCarried ==
  /\ \A d \in sessions : \A s \in OriginOf(d.refresh_token) :
        BoundTo(d.symbol_address, d.symbol_public_key, d.access_token, s)
  /\ (last.op \in {"code", "refresh"} /\ last.resp.status = 200) =>
        \A s \in OriginOf(last.resp.out[1].refresh_token) :
           LET jwt == last.resp.out[1].access_token
           IN jwt.pub = s /\ jwt.sub = AddressOf(s)

\* two chains of different signers: a rotated session of one signer is
\* stored while a session of the other signer exists
C21_Witness ==
  /\ last.op = "refresh" /\ last.resp.status = 200
  /\ \E d \in sessions :
        /\ d.refresh_token = last.resp.out[1].refresh_token
        /\ OriginOf(d.refresh_token) # {}
  /\ \E d, e \in sessions : d.symbol_public_key # e.symbol_public_key

\* C22: token(refresh_token) answers a request that presents an unknown
\* refresh token and a request that presents a stored but revoked one with
\* the same status code and the same body.
C22_UniformRefusal ==
  [][(/\ last' # last /\ last'.op = "refresh" /\ inflight' = inflight
      /\ last'.inp.cookie # 0 /\ last'.inp.client_id # Nil
      /\ faults' = faults)
     => LET se == findSessionByRefreshToken(last'.inp.cookie)
        IN (se = << >> \/ se[1].revoked)
             => last'.resp = ErrResp(400, "Invalid or revoked session", Nil)]_vars

\* a refresh request that presented a stored, revoked token was refused
C22_Witness ==
  /\ last.op = "refresh" /\ last.resp.status = 400
  /\ \E d \in sessions : d.refresh_token = last.inp.cookie /\ d.revoked

\* this step is the run of an authorize handler
AuthorizeStep ==
  last'.op = "authorize" /\ (last' # last \/ faults' # faults \/ nChal' # nChal)

\* C23: an authorize request that is answered 200 adds exactly one
\* challenge to the store, the one it answers with; an authorize request
\* that is answered with an error leaves the challenges as they are; no
\* authorize request changes the client registry.
C23_AuthorizeFrame ==
  [][AuthorizeStep =>
       /\ clients' = clients
       /\ IF last'.resp.status = 200
          THEN /\ challenges \subseteq challenges'
               /\ Cardinality(challenges' \ challenges) = 1
               /\ \A d \in challenges' \ challenges :
                     d.challenge = last'.resp.out[1].challenge
          ELSE challenges' = challenges]_vars

\* an authorize request was answered with an error after an earlier one had
\* stored its challenge
C23_Witness ==
  /\ last.op = "authorize" /\ last.resp.status \in {400, 500}
  /\ Cardinality(challenges) = 1

\* this step is the run of a check handler
CheckStep == last'.op = "check" /\ (last' # last \/ faults' # faults)

\* C24: no check request, whatever its inputs and its answer, changes the
\* challenges, the authorization codes or the sessions.
C24_CheckWritesNothing ==
  [][CheckStep =>
       /\ challenges' = challenges
       /\ authcodes' = authcodes
       /\ sessions' = sessions]_vars

\* a check was answered while challenges, codes and sessions were stored
C24_Witness ==
  /\ last.op = "check" /\ last.resp.status = 200
  /\ challenges # {} /\ authcodes # {} /\ sessions # {}

\* two requests carry the same response_type, client_id and redirect_uri
SameQuery(a, b) ==
  /\ a.response_type = b.response_type
  /\ a.client_id = b.client_id
  /\ a.redirect_uri = b.redirect_uri

\* C25: when check and authorize are called, one after the other, with the
\* same response_type, client_id and redirect_uri and no store call fails
\* (neither answers 500), either both answer 200 or both answer 400 with
\* the same error code.
C25_CheckAgreesWithAuthorize ==
  [][(/\ {last.op, last'.op} = {"authorize", "check"}
      /\ SameQuery(last.inp, last'.inp)
      /\ last.resp.status # 500 /\ last'.resp.status # 500)
     => /\ last'.resp.status = last.resp.status
        /\ last'.resp.status \in {200, 400}
        /\ last'.resp.error = last.resp.error]_vars

\* a check was answered 200 for the client and redirect URI of a stored
\* challenge
C25_Witness ==
  /\ last.op = "check" /\ last.resp.status = 200
  /\ \E d \in challenges :
        d.client_id = last.inp.client_id /\ d.redirect_uri = last.inp.redirect_uri

\* C26: a bearer token that is not signed by the server, or that has
\* expired, is answered 401 invalid_token every time it is presented, and no
\* promise rejection goes unhandled, the blacklist write included.
C26_InvalidBearerIdempotent ==
  /\ unhandled = {}
  /\ (/\ last.op = "userinfo" /\ last.inp.scheme = "Bearer"
      /\ (~last.inp.token[1].signed \/ last.hist.stale))
       => (last.resp.status = 401 /\ last.resp.error = "invalid_token")

\* C27: when the fetch of the allowed origins fails and a list is cached,
\* getCachedAllowedOrigins returns the cached list, whatever its age, and
\* leaves the cache as it is.
C27_StaleCacheOnFailure ==
  [][\A r \in inflight :
       (r.op = "origins" /\ EndsWithFailedWrite(r) /\ Len(allowedOriginsCache) > 0)
         => /\ last'.op = "origins" /\ last'.inp = r.inp
            /\ last'.resp = Returned(allowedOriginsCache)
            /\ allowedOriginsCache' = allowedOriginsCache]_vars

\* a call whose fetch failed returned a cached list older than the TTL
C27_Witness ==
  /\ last.op = "origins" /\ last.fresh > 0 /\ last.doc = << >>
  /\ Len(allowedOriginsCache) > 0
  /\ last.resp = Returned(allowedOriginsCache)
  /\ last.inp.now - cacheLastUpdated >= CACHE_TTL

\* a call of getCachedAllowedOrigins goes to the store in this step
OriginsGoesToStore == \E r \in inflight' \ inflight : r.op = "origins"

\* C28: once a refresh of the origin cache has succeeded, a call made less
\* than CACHE_TTL after that refresh began does not go to the store.
C28_NoStoreCallWithinTtl ==
  [][OriginsGoesToStore => ~\E f \in fetches : now - f[1] < CACHE_TTL]_vars

\* the cached list and its time are those of one fetch
CacheIsOneFetch ==
  Len(allowedOriginsCache) > 0 =>
    <<cacheLastUpdated, allowedOriginsCache>> \in fetches

\* the list a call returns in this step, where no fetch fails, is the list of
\* a fetch that began less than CACHE_TTL before the call
OriginsAnsweredFresh ==
  (last'.op = "origins" /\ last' # last /\ faults' = faults)
    => \E f \in fetches' :
          /\ last'.resp = Returned(f[2])
          /\ f[1] <= last'.inp.now /\ last'.inp.now - f[1] < CACHE_TTL
          /\ IF inflight' = inflight
             THEN f = <<cacheLastUpdated, allowedOriginsCache>>
             ELSE f = <<last'.inp.now, allowedOriginsCache'>>

\* C29: however calls of getCachedAllowedOrigins overlap, a call whose
\* fetch does not fail returns a list whose fetch began less than CACHE_TTL
\* before the call, and the cached list is at all times the whole result of
\* one fetch.
C29_CacheCoherent ==
  []CacheIsOneFetch /\ [][OriginsAnsweredFresh]_vars

\* two calls overlapped and the later writer put back the older list: the
\* cache holds the result of the fetch that began first
C29_Witness ==
  /\ last.op = "origins" /\ last.doc # << >>
  /\ \E f \in fetches : f[1] > cacheLastUpdated
  /\ \E f \in fetches : f[2] # allowedOriginsCache
  /\ Len(allowedOriginsCache) > 0

(***************************************************************************)
(* router.get('/authorize') of the route module: the authorize endpoint    *)
(* that records the PKCE parameters and the state on the Challenge         *)
(***************************************************************************)
\* a query parameter is falsy when it is absent or the empty string
ParamFalsy(x) == x = Nil \/ x = UndefParam \/ x = ""

RouterQuery(rt, cid, uri, cc, ccm, st) ==
  [response_type |-> rt, client_id |-> cid, redirect_uri |-> uri,
   code_challenge |-> cc, code_challenge_method |-> ccm, state |-> st]

\* validChallengeMethod
validChallengeMethod(ccm) == ParamFalsy(ccm) \/ ccm = "S256" \/ ccm = "plain"

\* the code_challenge_method written on challengeData
challengeMethod(ccm) == IF ccm = "S256" THEN "S256" ELSE "plain"

\* challengeData: the optional fields are Nil when they are not set
challengeData(challenge, q) ==
  [challenge |-> challenge, client_id |-> q.client_id,
   redirect_uri |-> q.redirect_uri,
   expires_at |-> now + CHALLENGE_EXPIRES_IN, createdAt |-> now,
   code_challenge |-> IF ParamFalsy(q.code_challenge) THEN Nil
                      ELSE q.code_challenge,
   code_challenge_method |-> IF ParamFalsy(q.code_challenge) THEN Nil
                             ELSE challengeMethod(q.code_challenge_method),
   state |-> IF ParamFalsy(q.state) THEN Nil ELSE q.state]

\* Clients.findOne({ client_id }).trusted_redirect_uris; << >> is no client
router_trustedUris(reg, id) ==
  IF id = "clientA" THEN <<reg.clientA>>
  ELSE IF id = "clientB" THEN <<reg.clientB>>
  ELSE << >>

\* findFails: Clients.findOne rejects; insertFails: Challenges.insertOne rejects
router_authorize(q, findFails, insertFails) ==
  LET r0 == Frame("router_authorize", "begin", q, << >>, << >>, 0, NoHistory, NoResp)
      t == router_trustedUris(clients, q.client_id)
  IN IF ~ParamFalsy(q.code_challenge)
          /\ ~validChallengeMethod(q.code_challenge_method)
     THEN /\ ~findFails /\ ~insertFails
          /\ Answer(r0, ErrResp(400, "invalid_request",
                 "Invalid code_challenge_method. Supported values are 'S256' and 'plain'"))
          /\ UNCHANGED <<challenges, nChal, faults, known>>
     ELSE IF ParamFalsy(q.response_type) \/ ParamFalsy(q.client_id)
             \/ q.redirect_uri = UUndef \/ q.redirect_uri = UEmpty
     THEN /\ ~findFails /\ ~insertFails
          /\ Answer(r0, ErrResp(400, "invalid_request",
                 "Missing required parameters: response_type, client_id, redirect_uri"))
          /\ UNCHANGED <<challenges, nChal, faults, known>>
     ELSE IF q.response_type # "code"
     THEN /\ ~findFails /\ ~insertFails
          /\ Answer(r0, ErrResp(400, "unsupported_response_type",
                 "Only 'code' response_type is supported"))
          /\ UNCHANGED <<challenges, nChal, faults, known>>
     ELSE IF findFails
     THEN /\ ~insertFails
          /\ Answer(r0, ErrResp(500, "server_error", "Failed to fetch client data"))
          /\ faults' = faults + 1
          /\ UNCHANGED <<challenges, nChal, known>>
     ELSE IF t = << >> \/ ~Truthy(t[1])
     THEN /\ ~insertFails
          /\ Answer(r0, ErrResp(400, "unauthorized_client",
                 "Client ID is not registered or has no trusted URIs"))
          /\ UNCHANGED <<challenges, nChal, faults, known>>
     ELSE IF ~Includes(t[1], q.redirect_uri)
     THEN /\ ~insertFails
          /\ Answer(r0, ErrResp(400, "invalid_request",
                 "redirect_uri does not match any trusted URIs"))
          /\ UNCHANGED <<challenges, nChal, faults, known>>
     ELSE /\ nChal < MaxChallenges
          /\ nChal' = nChal + 1
          /\ IF insertFails
             THEN /\ Answer(r0, ErrResp(500, "server_error", "Database error"))
                  /\ faults' = faults + 1
                  /\ UNCHANGED <<challenges, known>>
             ELSE /\ challenges' = challenges \cup {challengeData(nChal + 1, q)}
                  /\ Answer([r0 EXCEPT !.fresh = nChal + 1],
                            OkResp(200, [client_id |-> q.client_id,
                                         redirect_uri |-> q.redirect_uri,
                                         challenge |-> nChal + 1]))
                  /\ known' = [known EXCEPT !.challenges = @ \cup {nChal + 1},
                                            !.asked = @ \cup {<<nChal + 1, Asked(q)>>}]
                  /\ UNCHANGED faults

\* every shape of query string the route can receive
RouterQueries ==
  {RouterQuery(rt, cid, u, cc, ccm, st) :
     rt \in {"code", "token", UndefParam},
     cid \in {"clientA", "clientX"},
     u \in {UCb, UEvil},
     cc \in {Nil, S256("v1")},
     ccm \in {Nil, "", "S256", "plain", "S512"},
     st \in {Nil, "xyz"}}

RouterAuthorize ==
  \E q \in RouterQueries, findFails \in BOOLEAN, insertFails \in BOOLEAN :
     /\ (findFails \/ insertFails) => faults < MaxFaults
     /\ ~(findFails /\ insertFails)
     /\ CanBegin
     /\ router_authorize(q, findFails, insertFails)
     /\ UNCHANGED <<sideVars, clients, production, utilVars, now, authcodes, sessions, nCode,
                    nTok, minted, redeemed, refreshed, verified>>

NextRouter == RouterAuthorize

SpecRouter == Init /\ [][NextRouter]_vars

\* the Challenge the answered authorize request recorded
RecordedByLast == {d \in challenges : d.challenge = last.fresh}

\* C30: when authorize receives a code_challenge without a
\* code_challenge_method, the Challenge it records carries
\* code_challenge_method S256
C30_MethodDefaultsToS256 ==
  (/\ last.op = "router_authorize" /\ last.resp.status = 200
   /\ ~ParamFalsy(last.inp.code_challenge)
   /\ last.inp.code_challenge_method = Nil)
    => \A d \in RecordedByLast : d.code_challenge_method = "S256"

\* this step is a token handler whose lookup of the AuthCode or of the
\* Session failed
TokenLookupFails ==
  /\ faults' = faults + 1 /\ inflight' = inflight
  /\ last'.op \in {"code", "refresh"} /\ last'.pc = "done"

\* C31: when the store lookup of the AuthCode or of the Session fails during
\* token, the response is 500 'Database connection error', no token is
\* issued, and no AuthCode or Session is created or modified.
C31_LookupFailureIs500 ==
  [][TokenLookupFails =>
       /\ last'.resp = ErrResp(500, "Database connection error", Nil)
       /\ nTok' = nTok /\ known'.tokens = known.tokens
       /\ authcodes' = authcodes /\ sessions' = sessions]_vars

\* a token request met a failing lookup while an unused code was stored
C31_Witness ==
  /\ last.op = "code" /\ last.resp.status = 500 /\ faults >= 1
  /\ last.inp.code \in known.codes
  /\ \E d \in authcodes : d.auth_code = last.inp.code /\ ~d.used

(***************************************************************************)
(* token called by the client the code or the session belongs to and by    *)
(* another registered client                                               *)
(***************************************************************************)
ClientRedeemReqs ==
  {TokenReq("authorization_code", c, cid, Nil, 0)
     : c \in known.codes \cup {Unknown}, cid \in RegisteredClients}

ClientRefreshReqs ==
  {TokenReq("refresh_token", 0, cid, Nil, t)
     : t \in known.tokens \cup {Unknown}, cid \in RegisteredClients}

RedeemClient ==
  /\ inflight = {}
  /\ \E q \in ClientRedeemReqs, f \in BOOLEAN : TokenBegin(q, f)

RefreshClient ==
  /\ inflight = {}
  /\ \E q \in ClientRefreshReqs, f \in BOOLEAN : TokenBegin(q, f)

NextClient ==
  \/ AuthorizeSolo
  \/ VerifySignatureSolo
  \/ VerifyStore
  \/ VerifyFinish
  \/ RedeemClient
  \/ RefreshClient
  \/ TokenMarkUsed
  \/ TokenRevokeOld
  \/ TokenFinish

SpecClient == Init /\ [][NextClient]_vars

\* the stored AuthCode that holds code c
HoldersOfCode(c) == {d \in authcodes : d.auth_code = c}

\* this step is a token(authorization_code) handler reading a stored code
\* with a client_id other than the one the code was minted for
RedeemByOtherClient ==
  /\ (last' # last \/ inflight' # inflight)
  /\ \E r \in {last'} \cup (inflight' \ inflight) :
        /\ r.op = "code" /\ r.inp.code # 0 /\ r.inp.client_id # Nil
        /\ r.pc \in {"done", "updateAuthCode"}
        /\ (r.pc = "done" => (r = last' /\ inflight' = inflight))
        /\ HoldersOfCode(r.inp.code) # {}
        /\ \A d \in HoldersOfCode(r.inp.code) : d.client_id # r.inp.client_id

\* C32: an AuthCode minted for client X is redeemable only by a token
\* request whose client_id is X; a request presenting the same code with a
\* different client_id is rejected with 400 'Invalid or used code' and leaves
\* the AuthCode unchanged.
C32_CodeBoundToClient ==
  /\ [](\A r \in inflight \cup {last} :
          (r.op = "code" /\ (r.pc # "done" \/ r.resp.status = 200))
            => \A d \in HoldersOfCode(r.inp.code) : d.client_id = r.inp.client_id)
  /\ [][(RedeemByOtherClient /\ faults' = faults)
          => /\ inflight' = inflight
             /\ last'.resp = ErrResp(400, "Invalid or used code", Nil)
             /\ authcodes' = authcodes /\ nTok' = nTok]_vars

\* client B presented an unused code of client A and was refused
C32_Witness ==
  /\ last.op = "code" /\ last.resp.status = 400
  /\ last.inp.client_id = "clientB"
  /\ \E d \in HoldersOfCode(last.inp.code) : d.client_id = "clientA" /\ ~d.used

\* the stored Session that holds refresh token t
HoldersOfToken(t) == {d \in sessions : d.refresh_token = t}

\* C36: a refresh token issued in a Session for client X is accepted by
\* token(refresh_token) only when the request's client_id is X; presented
\* with any other client_id it is rejected and the Session is left unchanged.
C36_RefreshBoundToClient ==
  (last.op = "refresh" /\ last.resp.status = 200)
    => \A d \in HoldersOfToken(last.inp.cookie) : d.client_id = last.inp.client_id

(***************************************************************************)
(* utils/time.ts: parseTimeToSeconds.  A string is the sequence of its     *)
(* characters.                                                             *)
(***************************************************************************)
MaxStrLen == 3        \* characters of a time string

Digits == {"0", "1", "2"}
Units == {"d", "h", "m", "s"}
TimeChars == Digits \cup Units \cup {"x"}

DigitVal(c) == IF c = "0" THEN 0 ELSE IF c = "1" THEN 1 ELSE 2

\* parseInt(digits, 10) of a non-empty run of digits
RECURSIVE parseInt(_)
parseInt(ds) ==
  IF Len(ds) = 0 THEN 0
  ELSE 10 * parseInt(SubSeq(ds, 1, Len(ds) - 1)) + DigitVal(ds[Len(ds)])

\* /^\d+$/.test(s)
AllDigits(s) == Len(s) > 0 /\ \A i \in 1..Len(s) : s[i] \in Digits

\* the last index of the longest run of digits that starts at i
RECURSIVE RunEnd(_, _)
RunEnd(s, i) ==
  IF i < Len(s) /\ s[i + 1] \in Digits THEN RunEnd(s, i + 1) ELSE i

\* s.match(/(\d+)u/): the first capture group of the leftmost match, << >>
\* when there is no match (null)
RegexMatch(s, u) ==
  LET starts == {i \in 1..Len(s) :
                   /\ s[i] \in Digits
                   /\ RunEnd(s, i) < Len(s)
                   /\ s[RunEnd(s, i) + 1] = u}
  IN IF starts = {} THEN << >>
     ELSE LET i == CHOOSE k \in starts : \A j \in starts : k <= j
          IN <<SubSeq(s, i, RunEnd(s, i))>>

parseTimeToSeconds(s) ==
  LET part(u, w) == IF RegexMatch(s, u) = << >> THEN 0
                    ELSE parseInt(RegexMatch(s, u)[1]) * w
      totalSeconds == part("d", 86400) + part("h", 3600) + part("m", 60) + part("s", 1)
  IN IF Len(s) = 0 THEN 3600
     ELSE IF AllDigits(s) THEN parseInt(s)
     ELSE IF s = <<"0", "s">> THEN 0
     ELSE IF totalSeconds > 0 THEN totalSeconds ELSE 3600

RECURSIVE StringsUpTo(_)
StringsUpTo(n) ==
  IF n = 0 THEN {<< >>}
  ELSE LET shorter == StringsUpTo(n - 1)
       IN shorter \cup {Append(t, c) : t \in shorter, c \in TimeChars}

TimeStrings == StringsUpTo(MaxStrLen)

\* the caller picks a string
TimeChoose ==
  /\ seconds = -1 /\ timeStr = << >>
  /\ timeStr' \in TimeStrings \ {<< >>}
  /\ UNCHANGED <<seconds, store, counted>>
  /\ UNCHANGED <<sideVars, clients, production, now, challenges, authcodes,
                 sessions, inflight, last, nChal, nCode, nTok, faults, minted,
                 redeemed, refreshed, verified, known>>

\* the call
TimeParse ==
  /\ seconds = -1
  /\ seconds' = parseTimeToSeconds(timeStr)
  /\ UNCHANGED <<timeStr, store, counted>>
  /\ UNCHANGED <<sideVars, clients, production, now, challenges, authcodes,
                 sessions, inflight, last, nChal, nCode, nTok, faults, minted,
                 redeemed, refreshed, verified, known>>

NextTime == TimeChoose \/ TimeParse

SpecTime == Init /\ [][NextTime]_vars

\* a sequence of <number>d, <number>h, <number>m, <number>s components
WellFormedTime(s) ==
  /\ Len(s) > 0 /\ s[1] \in Digits /\ s[Len(s)] \in Units
  /\ \A i \in 1..Len(s) : s[i] \in Digits \cup Units
  /\ \A i \in 1..(Len(s) - 1) : s[i] \in Units => s[i + 1] \in Digits

\* C33: parseTimeToSeconds returns the default 3600 for the empty string and
\* for every string that is neither all digits nor a well-formed sequence of
\* <number>d, <number>h, <number>m, <number>s components.
C33_MalformedIsDefault ==
  (seconds # -1 /\ ~AllDigits(timeStr) /\ ~WellFormedTime(timeStr))
    => seconds = 3600

\* the answered request is a token(authorization_code) request refused by
\* the PKCE check
PkceRefused(r) ==
  /\ r.op = "code" /\ r.pc = "done" /\ r.resp.status = 400
  /\ r.resp.error = "invalid_grant"
  /\ r.resp.desc \in {"PKCE code_verifier is required but was not supplied",
                      "Unsupported PKCE method",
                      "code_verifier does not match code_challenge"}

\* request q presents the verifier of the S256 challenge stored with its code
PkceCorrect(q) ==
  \E d \in HoldersOfCode(q.code) :
     /\ d.client_id = q.client_id /\ d.pkce_challenge_method = "S256"
     /\ StrTruthy(q.code_verifier) /\ d.pkce_challenge = S256(q.code_verifier)

\* C34: a token(authorization_code) request that is rejected for a missing
\* code_verifier, an unsupported PKCE method or a mismatched code_verifier
\* leaves the AuthCode unchanged (used stays false), and the correct request
\* with the same code that follows it is accepted.
C34_PkceRefusalKeepsCode ==
  /\ [][(last' # last /\ PkceRefused(last'))
          => /\ authcodes' = authcodes
             /\ \E d \in HoldersOfCode(last'.inp.code) : ~d.used]_vars
  /\ [][(PkceRefused(last) /\ \E d \in HoldersOfCode(last.inp.code) : ~d.used)
          => ~(/\ last' # last /\ inflight' = inflight
               /\ last'.op = "code" /\ last'.inp.code = last.inp.code
               /\ PkceCorrect(last'.inp)
               /\ last'.resp.status # 200)]_vars

\* a code was refused for its verifier and then accepted with the right one
C34_Witness ==
  /\ PkceRefused(last)
  /\ \E r \in inflight :
        /\ r.op = "code" /\ r.pc = "updateAuthCode"
        /\ r.inp.code = last.inp.code /\ PkceCorrect(r.inp)

(***************************************************************************)
(* verify-signature over registries whose trusted_redirect_uri lists       *)
(* several URIs, one of them without a scheme                              *)
(***************************************************************************)
VerifyRegistries ==
  Registries \cup {[clientA |-> ArrVal(<<UNoScheme, UCb>>), clientB |-> StrVal(UB)],
                   [clientA |-> StrVal(UNoScheme \o <<" ">> \o UCb),
                    clientB |-> StrVal(UB)]}

InitVerify ==
  /\ clients \in VerifyRegistries
  /\ production = FALSE
  /\ now = 0
  /\ challenges = {}
  /\ authcodes = {}
  /\ sessions = {}
  /\ inflight = {}
  /\ last = IdleFrame
  /\ nChal = 0
  /\ nCode = 0
  /\ nTok = 0
  /\ faults = 0
  /\ minted = {}
  /\ redeemed = [c \in 1..MaxCodes |-> 0]
  /\ refreshed = [t \in 1..MaxSessions |-> 0]
  /\ verified = [c \in 1..MaxChallenges |-> 0]
  /\ known = [challenges |-> {}, codes |-> {}, tokens |-> {}, rotated |-> {},
              asked |-> {}, ended |-> {}, origin |-> {}]
  /\ blacklist = {}
  /\ unhandled = {}
  /\ allowedOriginsCache = << >>
  /\ cacheLastUpdated = 0
  /\ fetches = {}
  /\ timeStr = << >>
  /\ seconds = -1
  /\ store = {}
  /\ counted = {}

NextVerify ==
  \/ AuthorizeSolo
  \/ VerifySignature
  \/ VerifyStore
  \/ VerifyFinish

SpecVerify == InitVerify /\ [][NextVerify]_vars

\* C35: whenever verify-signature returns an error response (4xx or 5xx),
\* no AuthCode has been stored by that request and the Challenge has not been
\* deleted by it.
C35_VerifyErrorWritesNothing ==
  [][(last' # last /\ last'.op = "verify" /\ last'.resp.status >= 400)
       => /\ challenges' = challenges
          /\ ~\E d \in authcodes' : d.auth_code = last'.fresh]_vars

\* C37: when a logout(R) request and a token(refresh_token, R) request run
\* concurrently, they never both return success (stated for runs in which
\* no store call fails).
C37_LogoutOrRefresh ==
  faults = 0 =>
    \A t \in 1..MaxSessions : ~(t \in known.ended /\ refreshed[t] >= 1)

(***************************************************************************)
(* verify-signature, token and logout one request at a time, over well-    *)
(* formed and malformed requests, with up to two failing store calls       *)
(***************************************************************************)
RespondPayloads ==
  FlowPayloads \cup
  {Payload("testnet", FALSE, "transfer", "json",
           Json("clientA", Unknown, "xyz", Nil, Nil), "PK_ALICE"),
   Payload("testnet", TRUE, "transfer", "badjson", NoJson, "PK_ALICE"),
   Payload("testnet", TRUE, "transfer", "json",
           Json("clientX", Unknown, "xyz", Nil, Nil), "PK_ALICE")}

RespondTokenReqs ==
  FlowTokenReqs \cup
  {TokenReq(Nil, 0, Nil, Nil, 0), TokenReq("password", 0, "clientA", Nil, 0),
   TokenReq("authorization_code", 0, "clientA", Nil, 0),
   TokenReq("refresh_token", 0, "clientA", Nil, 0)}

RespondLogoutReqs == FlowLogoutReqs \cup {LogoutReq(0)}

\* room for two failing store calls, whatever MaxFaults is
InitRespond ==
  /\ clients \in {c \in VerifyRegistries : c.clientA.kind = "string"}
  /\ production = FALSE
  /\ now = 0
  /\ challenges = {}
  /\ authcodes = {}
  /\ sessions = {}
  /\ inflight = {}
  /\ last = IdleFrame
  /\ nChal = 0
  /\ nCode = 0
  /\ nTok = 0
  /\ faults = MaxFaults - 2
  /\ minted = {}
  /\ redeemed = [c \in 1..MaxCodes |-> 0]
  /\ refreshed = [t \in 1..MaxSessions |-> 0]
  /\ verified = [c \in 1..MaxChallenges |-> 0]
  /\ known = [challenges |-> {}, codes |-> {}, tokens |-> {}, rotated |-> {},
              asked |-> {}, ended |-> {}, origin |-> {}]
  /\ blacklist = {}
  /\ unhandled = {}
  /\ allowedOriginsCache = << >>
  /\ cacheLastUpdated = 0
  /\ fetches = {}
  /\ timeStr = << >>
  /\ seconds = -1
  /\ store = {}
  /\ counted = {}

VerifySignatureRespond ==
  /\ inflight = {}
  /\ \E p \in RespondPayloads, cf \in BOOLEAN, ff \in BOOLEAN : VerifyBegin(p, cf, ff)

TokenRespond ==
  /\ inflight = {}
  /\ \E q \in RespondTokenReqs, f \in BOOLEAN : TokenBegin(q, f)

LogoutRespond ==
  /\ inflight = {}
  /\ \E q \in RespondLogoutReqs, f \in BOOLEAN : LogoutBegin(q, f)

NextRespond ==
  \/ AuthorizeSolo
  \/ VerifySignatureRespond
  \/ VerifyStore
  \/ VerifyFinish
  \/ TokenRespond
  \/ TokenMarkUsed
  \/ TokenRevokeOld
  \/ TokenFinish
  \/ LogoutRespond
  \/ LogoutRevoke

SpecRespond == InitRespond /\ [][NextRespond]_vars

HandlerOps == {"verify", "code", "refresh", "logout"}

\* frame r2 is the handler of frame r at a later store call
SameRequest(r, r2) == r2.op = r.op /\ r2.inp = r.inp /\ r2.fresh = r.fresh

\* the handler suspended in frame r has a next step when its store call
\* returns
CanContinue(r) ==
  ENABLED (\/ VerifyInsertAuthCode(r, FALSE) \/ VerifyDeleteChallenge(r, FALSE)
           \/ TokenUpdateAuthCode(r, FALSE) \/ TokenUpdateSession(r, FALSE)
           \/ TokenInsertSession(r, FALSE) \/ LogoutUpdateSession(r, FALSE))

MaxRateTicks == 3      \* steps of the clock of the rate limiter
RateTickStep == 450    \* seconds in one of these steps

RATE_WINDOW == 900     \* windowMs, in seconds
RATE_MAX == 10         \* maxRequests

\* `${req.ip}:${clientId}` with clientId = req.query.client_id || 'unknown'
RateKey(q) == q.ip \o ":" \o (IF StrTruthy(q.client_id) THEN q.client_id ELSE "unknown")

RateEntry(k) == {e \in store : e.key = k}

TooMany ==
  [status |-> 0, error |-> "too_many_requests",
   desc |-> "Too many authorization requests, please try again later",
   out |-> <<[allowed |-> FALSE]>>]

Allowed == [status |-> 0, error |-> Nil, desc |-> Nil, out |-> <<[allowed |-> TRUE]>>]

\* history: the window a key's counted requests fall in
CountedEntry(k) == {c \in counted : c.key = k}

Count(k) ==
  IF CountedEntry(k) = {} \/ (\E c \in CountedEntry(k) : now > c.first + RATE_WINDOW)
  THEN (counted \ CountedEntry(k)) \cup {[key |-> k, first |-> now, n |-> 1]}
  ELSE {IF c.key = k THEN [c EXCEPT !.n = @ + 1] ELSE c : c \in counted}

\* checkAuthorizeRateLimit that starts the window again at every counted
\* request
checkAuthorizeRateLimit_sliding(q) ==
  LET k == RateKey(q)
      r0 == Frame("ratelimit", "done", q, << >>, << >>, 0, NoHistory, NoResp)
  IN IF RateEntry(k) = {} \/ (\E e \in RateEntry(k) : e.resetTime < now)
     THEN /\ store' = (store \ RateEntry(k)) \cup
                        {[key |-> k, count |-> 1, resetTime |-> now + RATE_WINDOW]}
          /\ last' = [r0 EXCEPT !.resp = Allowed]
          /\ counted' = Count(k)
     ELSE IF \E e \in RateEntry(k) : e.count >= RATE_MAX
     THEN /\ last' = [r0 EXCEPT !.resp = TooMany]
          /\ UNCHANGED <<store, counted>>
     ELSE /\ store' = {IF e.key = k
                        THEN [e EXCEPT !.count = @ + 1,
                                       !.resetTime = now + RATE_WINDOW]
                        ELSE e : e \in store}
          /\ last' = [r0 EXCEPT !.resp = Allowed]
          /\ counted' = Count(k)

checkAuthorizeRateLimit(q) ==
  LET k == RateKey(q)
      r0 == Frame("ratelimit", "done", q, << >>, << >>, 0, NoHistory, NoResp)
  IN IF RateEntry(k) = {} \/ (\E e \in RateEntry(k) : e.resetTime < now)
     THEN /\ store' = (store \ RateEntry(k)) \cup
                        {[key |-> k, count |-> 1, resetTime |-> now + RATE_WINDOW]}
          /\ last' = [r0 EXCEPT !.resp = Allowed]
          /\ counted' = Count(k)
     ELSE IF \E e \in RateEntry(k) : e.count >= RATE_MAX
     THEN /\ last' = [r0 EXCEPT !.resp = TooMany]
          /\ UNCHANGED <<store, counted>>
     ELSE /\ store' = {IF e.key = k THEN [e EXCEPT !.count = @ + 1] ELSE e
                         : e \in store}
          /\ last' = [r0 EXCEPT !.resp = Allowed]
          /\ counted' = Count(k)

RateRequests ==
  {[ip |-> "10.0.0.1", client_id |-> "clientA"],
   [ip |-> "10.0.0.2", client_id |-> Nil]}

RateCheck ==
  /\ \E q \in RateRequests : checkAuthorizeRateLimit(q)
  /\ UNCHANGED <<timeStr, seconds>>
  /\ UNCHANGED <<sideVars, clients, production, now, challenges, authcodes,
                 sessions, inflight, nChal, nCode, nTok, faults, minted,
                 redeemed, refreshed, verified, known>>

\* the setInterval callback, at whatever instant the timer fires: entries
\* whose window is over are deleted
RateSweep ==
  /\ \E e \in store : e.resetTime < now
  /\ store' = {e \in store : ~(e.resetTime < now)}
  /\ UNCHANGED <<timeStr, seconds, counted>>
  /\ UNCHANGED <<sideVars, clients, production, now, challenges, authcodes,
                 sessions, inflight, last, nChal, nCode, nTok, faults, minted,
                 redeemed, refreshed, verified, known>>

RateTick ==
  /\ now < MaxRateTicks * RateTickStep
  /\ now' = now + RateTickStep
  /\ UNCHANGED utilVars
  /\ UNCHANGED <<sideVars, clients, production, challenges, authcodes,
                 sessions, inflight, last, nChal, nCode, nTok, faults, minted,
                 redeemed, refreshed, verified, known>>

NextRate == RateCheck \/ RateSweep \/ RateTick

SpecRate == Init /\ [][NextRate]_vars

\* this step is a call of checkAuthorizeRateLimit for key k
RateStep(k) ==
  /\ last'.op = "ratelimit" /\ RateKey(last'.inp) = k
  /\ (last' # last \/ counted' # counted)

\* history: key k has a window that has not elapsed
InWindow(k) == \E c \in CountedEntry(k) : now <= c.first + RATE_WINDOW

\* C39: for each (ip, client_id) key, checkAuthorizeRateLimit allows at most
\* 10 requests in the 15-minute window that starts at the key's first
\* counted request, rejects every further request in that window with
\* too_many_requests, and allows requests again once the window has elapsed.
C39_RateLimitWindow ==
  /\ [](\A c \in counted : c.n <= RATE_MAX)
  /\ [][\A q \in RateRequests :
           RateStep(RateKey(q)) =>
             /\ (InWindow(RateKey(q))
                  /\ \E c \in CountedEntry(RateKey(q)) : c.n >= RATE_MAX)
                   => last'.resp = TooMany
             /\ ~InWindow(RateKey(q)) => last'.resp = Allowed]_vars

\* a key was refused in its window and is allowed again after it, while
\* the other key is still in its own window
C39_Witness ==
  /\ last.op = "ratelimit" /\ last.resp = Allowed
  /\ \E c \in CountedEntry(RateKey(last.inp)) : c.first > RATE_WINDOW /\ c.n = 1
  /\ \E c \in counted : c.key # RateKey(last.inp) /\ c.n = RATE_MAX /\ c.first > 0

=============================================================================
